---- MODULE Spec2Model ----
(***************************************************************************)
(* KrillClaw bridge: the multi-channel message router                      *)
(* (channels/__init__.py) with the Telegram, MQTT and WhatsApp channels.   *)
(*                                                                         *)
(* One asyncio event loop runs the router's coroutines.  A step of the     *)
(* model is what one coroutine does between two suspension points (an      *)
(* await that really yields), or one call of the router's API.             *)
(***************************************************************************)
EXTENDS Integers, Sequences, FiniteSets, TLC

VARIABLES
    cfg,        \* constructor argument allowed_users / allowed_clients per channel
    allow,      \* the attribute the constructor stored (self.allowed_users, ...)
    channels,   \* MessageRouter._channels: the registered names (one channel per name)
    tasks,      \* MessageRouter._tasks: list of task ids
    task,       \* every asyncio task created by start_all, by id
    calls,      \* the start_all invocations made so far
    stops,      \* outcome of every stop_all invocation made so far
    chan,       \* per channel: _running and the transport handle (_client, _server)
    msgs,       \* every inbound event, in arrival order, with its dispatch state
    sent,       \* log of Channel.send invocations, in invocation order
    life,       \* observed lifecycle of each channel: state entered last, and
                \* whether every transition so far followed the chain
    stopRun,    \* number of completed stop_all calls in a row ending at this state
    budget,     \* how many calls, tasks and inbound events a behaviour explores
    loop,       \* the event loop's thread: 0 when it is between callbacks, t when
                \* task t holds it inside a blocking call, -1 when a stop()
                \* holds it in a call that never returns
    halt,       \* the stop_all call suspended inside a channel's stop(), if any
    dev,        \* device link: the sessions, each with its streams, its read loop
                \* and every payload handed to handle_message with its outcome
    srv,        \* device link: the transport serving it and whether it is up
    wire,       \* what the channels' send methods put on their transports
    http,       \* webhook: the shared secret and every POST with its responses
    ws,         \* websocket: the shared secret and every connection with its frames
    tool        \* tool handlers: the clock, the write rate limiter, the hardware
                \* and the runs of exec_tool_mode

linkVars == <<dev, srv>>

edgeVars == <<wire, http, ws, tool>>

routerVars == <<cfg, allow, channels, tasks, task, calls, stops, chan, msgs, sent, life,
                stopRun, budget, loop, halt>>

vars == <<cfg, allow, channels, tasks, task, calls, stops, chan, msgs, sent, life,
          stopRun, budget, loop, halt, linkVars, edgeVars>>

----------------------------------------------------------------------------
(* Bounds *)
MaxStartAll == 2
MaxStopAll == 2
MaxTasks == 3
MaxMsgs == 2
MaxBatch == 2
MaxSessions == 2
MaxFrames == 2
MaxSends == 2
MaxPosts == 2
MaxNotes == 3
MaxConns == 2
MaxWsFrames == 2
MaxRuns == 2
MaxWrites == 12
MaxClock == 2
Window == 2
MaxFiles == 3
MaxStreams == 2
MaxUpdates == 3
MaxPubs == 2
MaxLines == 3

(* Value sets *)
Names == {"telegram", "mqtt", "whatsapp"}
\* the channels that answer over the connection the request came in on, or
\* through a client library's own event handlers
Gateways == {"webhook", "websocket", "discord", "slack"}
Kinds == Names \cup Gateways
Senders == {"7", "42"}
\* inbound events of the Telegram and MQTT channels: <<channel_id, sender_id>>
Events == {<<"c1", "42">>, <<"c2", "7">>}
\* the order in which the registry's values are visited
Order == <<"telegram", "mqtt", "whatsapp", "webhook", "websocket", "discord", "slack">>

NotGiven == [given |-> FALSE, ids |-> {}]
AllowArgs == {NotGiven, [given |-> TRUE, ids |-> {}], [given |-> TRUE, ids |-> {"42"}]}

Finished == {"early", "failed", "returned", "cancelled"}
Chain == <<"Registered", "Starting", "Running", "Stopping", "Stopped">>

Range(s) == {s[i] : i \in DOMAIN s}

----------------------------------------------------------------------------
(* Constructors *)

\* Python truthiness of the allowlist argument: None and the empty list are falsy.
Truthy(a) == a.given /\ a.ids # {}

\* self.allowed_users = set(allowed_users) if allowed_users else None
AllowlistAttr(arg) == IF Truthy(arg) THEN [given |-> TRUE, ids |-> arg.ids] ELSE NotGiven

\* Telegram: if self.allowed_users and user_id not in self.allowed_users: continue
TelegramBlocked(attr, sender) == Truthy(attr) /\ sender \notin attr.ids

NoResp == [kind |-> "none", of |-> 0]

\* what the application handler returns for message m (its text identifies it)
Reply(m) == [kind |-> "reply", of |-> m]

ErrorReplyUnmarked(m) == [kind |-> "reply", of |-> m]

\* response = f"[error] {exc}"
ErrorReply(m) == [kind |-> "error", of |-> m]

NewTask(c) == [chan |-> c, pc |-> "new", cancel |-> FALSE, batch |-> <<>>, cur |-> 0]

NewMsg(c, chat, sender) ==
    [chan |-> c, chat |-> chat, sender |-> sender, pc |-> "queued", owner |-> 0,
     hres |-> "none", sres |-> "none", resp |-> NoResp]

\* no stop_all call is suspended
NoHalt == [at |-> "none", rest |-> <<>>, seen |-> {}]

\* State after the channels and the router are constructed
Constructed ==
    /\ allow = [c \in Kinds |-> AllowlistAttr(cfg[c])]
    /\ channels = {}
    /\ tasks = <<>>
    /\ task = <<>>
    /\ calls = <<>>
    /\ stops = <<>>
    /\ chan = [c \in Kinds |-> [running |-> FALSE, handle |-> "none"]]
    /\ msgs = <<>>
    /\ sent = <<>>
    /\ life = [c \in Kinds |-> [st |-> "None", ok |-> TRUE]]
    /\ stopRun = 0
    /\ loop = 0
    /\ halt = NoHalt

\* no device link is served
NoLink == dev = <<>> /\ srv = [kind |-> "none", up |-> FALSE, sends |-> 0]

\* BUILTIN_TOOLS: the tool names that plugins cannot override
BUILTIN_TOOLS ==
    {"mqtt_publish", "mqtt_subscribe", "http_request", "robot_cmd", "estop", "telemetry",
     "web_search", "session_save", "session_load", "session_list", "ota_check",
     "ota_download", "ota_apply"}

\* TOOL_HANDLERS as the module defines it: the dispatch table of --exec-tool,
\* a handler being named by where it comes from
TOOL_HANDLERS ==
    [n \in {"mqtt_publish", "mqtt_subscribe", "http_request", "robot_cmd", "estop",
            "telemetry", "web_search", "session_save", "session_load", "session_list",
            "ota_check", "ota_download", "ota_apply"} |-> <<"bridge", 0>>]

\* The plugins directory as sorted(os.listdir(PLUGINS_DIR)) gives it, the
\* files that are no plugin files left out: what a file's TOOL_NAME is and
\* whether _load_plugin returns the module, returns None or raises
PluginDirs ==
    UNION {[1..n -> [name : {"estop", "telemetry", "mine", "other"},
                     load : {"module", "none", "raises"}]] : n \in 0..MaxFiles}

\* nothing is sent, posted, connected or run outside the router
NoEdge == wire = <<>> /\ http = <<>> /\ ws = <<>> /\ tool = <<>>

\* One part of the bridge is up on its own, the rest as constructed: k is
\* "send" (channels with an MQTT client or without), "http" and "ws" (the
\* gateway with auth_token or without), "ble" (client connected,
\* response_data empty), "tool" (no command run, no pin written), "plugins"
\* (a plugins directory, nothing loaded), "stream" (one websocket
\* connection past its auth check, no message yet) or "poll" (the Telegram
\* loop before its first getUpdates, _offset None, written 0) or "subscribed"
\* (the MQTT client subscribed to its topic, nothing received)
Served(k) ==
    /\ cfg = [c \in Kinds |-> NotGiven]
    /\ budget = [starts |-> 0, stops |-> 0, tasks |-> 0, msgs |-> 0, batch |-> 0]
    /\ Constructed
    /\ \E b \in BOOLEAN :
         /\ wire = CASE k = "send" -> [client |-> b, log |-> <<>>]
                     [] k = "poll" -> [offset |-> 0, pc |-> "poll", held |-> <<>>, made |-> 0,
                                       batch |-> <<>>, got |-> {}, handed |-> <<>>]
                     [] k = "subscribed" -> [topic |-> "krillclaw/in", log |-> <<>>]
                     [] OTHER -> <<>>
         /\ http = IF k = "http" THEN [token |-> b, log |-> <<>>] ELSE <<>>
         /\ ws = CASE k = "ws" -> [token |-> b, conns |-> <<>>]
                   [] k = "stream" -> [open |-> TRUE, pc |-> "idle", in |-> "none", n |-> 0,
                                       say |-> <<>>, lines |-> <<>>, frames |-> <<>>]
                   [] OTHER -> <<>>
    /\ \/ /\ k = "tool"
          /\ tool = [runs |-> <<>>, now |-> 0, calls |-> 0, last |-> [pin |-> 0, ok |-> TRUE],
                     stamps |-> [p \in {17, 27} |-> <<>>], hw |-> [p \in {17, 27} |-> <<>>]]
       \/ /\ k = "plugins"
          /\ \E fs \in PluginDirs :
                tool = [files |-> fs, pos |-> 0, plugins |-> <<>>, merged |-> FALSE,
                        handlers |-> TOOL_HANDLERS]
       \/ /\ k \notin {"tool", "plugins"}
          /\ tool = <<>>
    /\ srv = [kind |-> IF k = "ble" THEN "ble" ELSE "none", up |-> k = "ble", sends |-> 0]
    /\ dev = IF k = "ble"
             THEN <<[pending |-> [id |-> 0, len |-> 0], data |-> [id |-> 0, len |-> 0],
                     pos |-> 0, pc |-> "idle", lens |-> <<>>, out |-> <<>>]>>
             ELSE <<>>

\* Message traffic under any allowlist configuration, with one router call
\* and one task fewer than the lifecycle exploration
Init ==
    /\ \E a \in AllowArgs :
         cfg = [c \in Kinds |-> IF c \in {"telegram", "mqtt"} THEN a ELSE NotGiven]
    /\ budget = [starts |-> MaxStartAll - 1, stops |-> MaxStopAll - 1,
                 tasks |-> MaxTasks - 1, msgs |-> MaxMsgs, batch |-> MaxBatch]
    /\ Constructed
    /\ NoLink
    /\ NoEdge

\* Repeated start_all/stop_all calls, no allowlist, with one inbound event
\* fewer than the traffic exploration
InitLife ==
    /\ cfg = [c \in Kinds |-> NotGiven]
    /\ budget = [starts |-> MaxStartAll, stops |-> MaxStopAll, tasks |-> MaxTasks,
                 msgs |-> MaxMsgs - 1, batch |-> MaxBatch - 1]
    /\ Constructed
    /\ NoLink
    /\ NoEdge

\* The gateway channels, with one start_all and one inbound event
InitGateways ==
    /\ cfg = [c \in Kinds |-> NotGiven]
    /\ budget = [starts |-> MaxStartAll - 1, stops |-> MaxStopAll, tasks |-> MaxTasks - 1,
                 msgs |-> MaxMsgs - 1, batch |-> MaxBatch - 1]
    /\ Constructed
    /\ NoLink
    /\ NoEdge

----------------------------------------------------------------------------
(* Lifecycle observation *)

Follows(a, b) ==
    \/ a = "None" /\ b = Chain[1]
    \/ \E i \in 1..(Len(Chain) - 1) : a = Chain[i] /\ b = Chain[i + 1]

\* the channel enters state st
Enter(l, st) ==
    IF l.st = st THEN l ELSE [st |-> st, ok |-> l.ok /\ Follows(l.st, st)]

----------------------------------------------------------------------------
(* The event loop *)

\* Callbacks and coroutine steps run one at a time on the loop's thread; none
\* starts while a blocking call made by another step has not returned.
LoopFree == loop = 0

----------------------------------------------------------------------------
(* MessageRouter.register *)

Register(c) ==
    /\ LoopFree
    /\ c \notin channels
    /\ channels' = channels \cup {c}
    /\ life' = [life EXCEPT ![c] = Enter(@, "Registered")]
    /\ stopRun' = 0
    /\ UNCHANGED <<edgeVars, linkVars, halt, cfg, allow, tasks, task, calls, stops, chan, msgs, sent, budget, loop>>

----------------------------------------------------------------------------
(* MessageRouter.start_all *)

\* asyncio.gather(*self._tasks, return_exceptions=True): exceptions and
\* cancellations of the awaited tasks are collected as results.
GatherOutcomeRaising(ts) == IF \E t \in ts : task[t].pc = "failed" THEN "raised" ELSE "returned"

GatherOutcome(ts) == "returned"

\* self._channels.values()
Values == SelectSeq(Order, LAMBDA c : c \in channels)

StartAll ==
    /\ LoopFree
    /\ Len(calls) < budget.starts
    /\ IF channels = {}
       THEN /\ calls' = Append(calls, [aw |-> {}, pc |-> "returned"])
            /\ UNCHANGED <<tasks, task, life>>
       ELSE /\ Len(task) + Len(Values) <= budget.tasks
            /\ task' = task \o [i \in 1..Len(Values) |-> NewTask(Values[i])]
            /\ tasks' = tasks \o [i \in 1..Len(Values) |-> Len(task) + i]
            /\ calls' = Append(calls, [aw |-> Range(tasks'), pc |-> "gather"])
            /\ life' = [c \in Kinds |->
                          IF c \in channels THEN Enter(life[c], "Starting") ELSE life[c]]
    /\ stopRun' = 0
    /\ UNCHANGED <<edgeVars, linkVars, halt, cfg, allow, channels, stops, chan, msgs, sent, budget, loop>>

\* the await on gather completes once every awaited task is done
StartAllReturn(k) ==
    /\ LoopFree
    /\ calls[k].pc = "gather"
    /\ \A t \in calls[k].aw : task[t].pc \in Finished
    /\ calls' = [calls EXCEPT ![k].pc = GatherOutcome(calls[k].aw)]
    /\ stopRun' = 0
    /\ UNCHANGED <<edgeVars, linkVars, halt, cfg, allow, channels, tasks, task, stops, chan, msgs, sent, life, budget, loop>>

----------------------------------------------------------------------------
(* Channel start(): the first step of a task, up to its first suspension. *)

\* positions at which a task is suspended in an await (or not yet begun)
Awaiting == {"new", "poll", "sleep", "dispatch", "idle", "serve",
             "bind", "forever", "login", "gateway", "handshake", "asleep"}

SetTask(t, pc) == [task EXCEPT ![t].pc = pc]

\* TelegramChannel.start, the "for update in updates" loop from its current
\* position up to the next suspension: blocked senders are skipped, the next
\* admitted update is handed to on_message (whose first await is the handler);
\* when the batch is exhausted the "while self._running" test is taken.
RECURSIVE TgLoop(_, _, _)
TgLoop(ms, b, t) ==
    IF b = <<>>
    THEN [msgs |-> ms, batch |-> <<>>, cur |-> 0,
          pc |-> IF chan["telegram"].running THEN "poll" ELSE "returned"]
    ELSE IF TelegramBlocked(allow["telegram"], ms[Head(b)].sender)
         THEN TgLoop([ms EXCEPT ![Head(b)].pc = "dropped"], Tail(b), t)
         ELSE [msgs |-> [ms EXCEPT ![Head(b)].pc = "handler", ![Head(b)].owner = t],
               batch |-> Tail(b), cur |-> Head(b), pc |-> "dispatch"]

\* start(): me = self._api_call("getMe") is a plain call of the blocking HTTP
\* helper, made by the task's first step on the loop's thread.
TelegramBegin(t) ==
    /\ LoopFree
    /\ task[t].chan = "telegram" /\ task[t].pc = "new" /\ ~task[t].cancel
    /\ task' = SetTask(t, "getMe")
    /\ loop' = t
    /\ stopRun' = 0
    /\ UNCHANGED <<edgeVars, linkVars, halt, cfg, allow, channels, tasks, calls, stops, chan, msgs, sent, life, budget>>

\* getMe answers: not ok -> log and return; otherwise _running = True and the
\* first getUpdates is awaited in the executor.
TelegramGetMe(t) ==
    /\ task[t].chan = "telegram" /\ task[t].pc = "getMe" /\ loop = t
    /\ \/ /\ task' = SetTask(t, "early")
          /\ UNCHANGED <<chan, life>>
       \/ /\ task' = SetTask(t, "poll")
          /\ chan' = [chan EXCEPT !["telegram"].running = TRUE]
          /\ life' = [life EXCEPT !["telegram"] = Enter(@, "Running")]
    /\ loop' = 0
    /\ stopRun' = 0
    /\ UNCHANGED <<edgeVars, linkVars, halt, cfg, allow, channels, tasks, calls, stops, msgs, sent, budget>>

\* run_in_executor(_get_updates) returns a batch of text updates
TelegramPoll(t) ==
    /\ LoopFree
    /\ task[t].chan = "telegram" /\ task[t].pc = "poll" /\ ~task[t].cancel
    /\ \E n \in 1..budget.batch :
         /\ Len(msgs) + n <= budget.msgs
         /\ \E ups \in [1..n -> Events] :
              LET ms1 == msgs \o [i \in 1..n |-> NewMsg("telegram", ups[i][1], ups[i][2])]
                  r   == TgLoop(ms1, [i \in 1..n |-> Len(msgs) + i], t)
              IN /\ msgs' = r.msgs
                 /\ task' = [task EXCEPT ![t].pc = r.pc, ![t].batch = r.batch, ![t].cur = r.cur]
    /\ stopRun' = 0
    /\ UNCHANGED <<edgeVars, linkVars, halt, cfg, allow, channels, tasks, calls, stops, chan, sent, life, budget, loop>>

\* getUpdates raised: "retrying in 5s", await asyncio.sleep(5)
TelegramPollError(t) ==
    /\ LoopFree
    /\ task[t].chan = "telegram" /\ task[t].pc = "poll" /\ ~task[t].cancel
    /\ task' = SetTask(t, "sleep")
    /\ stopRun' = 0
    /\ UNCHANGED <<edgeVars, linkVars, halt, cfg, allow, channels, tasks, calls, stops, chan, msgs, sent, life, budget, loop>>

\* the sleep ends: continue -> while self._running
TelegramSleepDone(t) ==
    /\ LoopFree
    /\ task[t].chan = "telegram" /\ task[t].pc = "sleep" /\ ~task[t].cancel
    /\ task' = SetTask(t, IF chan["telegram"].running THEN "poll" ELSE "returned")
    /\ stopRun' = 0
    /\ UNCHANGED <<edgeVars, linkVars, halt, cfg, allow, channels, tasks, calls, stops, chan, msgs, sent, life, budget, loop>>

\* MqttChannel.start: ImportError -> return; otherwise self._client is
\* assigned and self._client.connect(...), a blocking call of the client
\* library, is made by the task's first step on the loop's thread.
MqttBegin(t) ==
    /\ LoopFree
    /\ task[t].chan = "mqtt" /\ task[t].pc = "new" /\ ~task[t].cancel
    /\ \/ /\ task' = SetTask(t, "early")
          /\ UNCHANGED <<chan, loop>>
       \/ /\ task' = SetTask(t, "connect")
          /\ chan' = [chan EXCEPT !["mqtt"].handle = "created"]
          /\ loop' = t
    /\ stopRun' = 0
    /\ UNCHANGED <<edgeVars, linkVars, halt, cfg, allow, channels, tasks, calls, stops, msgs, sent, life, budget>>

\* connect() raises -> the task fails with self._client still assigned;
\* otherwise the client's network thread is started, _running = True and the
\* task sleeps in its keep-alive loop.
MqttConnect(t) ==
    /\ task[t].chan = "mqtt" /\ task[t].pc = "connect" /\ loop = t
    /\ \/ /\ task' = SetTask(t, "failed")
          /\ UNCHANGED <<chan, life>>
       \/ /\ task' = SetTask(t, "idle")
          /\ chan' = [chan EXCEPT !["mqtt"] = [running |-> TRUE, handle |-> "looping"]]
          /\ life' = [life EXCEPT !["mqtt"] = Enter(@, "Running")]
    /\ loop' = 0
    /\ stopRun' = 0
    /\ UNCHANGED <<edgeVars, linkVars, halt, cfg, allow, channels, tasks, calls, stops, msgs, sent, budget>>

\* WhatsAppChannel.start: missing credentials -> return; HTTPServer(...) raises
\* when the port cannot be bound (always so while an earlier server of this
\* channel still holds it); otherwise serve_forever runs in the executor.
WhatsAppBegin(t) ==
    /\ LoopFree
    /\ task[t].chan = "whatsapp" /\ task[t].pc = "new" /\ ~task[t].cancel
    /\ \/ /\ task' = SetTask(t, "early")
          /\ UNCHANGED <<chan, life>>
       \/ /\ task' = SetTask(t, "failed")
          /\ UNCHANGED <<chan, life>>
       \/ /\ chan["whatsapp"].handle = "none"
          /\ task' = SetTask(t, "serve")
          /\ chan' = [chan EXCEPT !["whatsapp"].handle = "serving"]
          /\ life' = [life EXCEPT !["whatsapp"] = Enter(@, "Running")]
    /\ stopRun' = 0
    /\ UNCHANGED <<edgeVars, linkVars, halt, cfg, allow, channels, tasks, calls, stops, msgs, sent, budget, loop>>

\* A task whose cancellation was requested gets CancelledError at the await
\* it is suspended in (or before its first step).  CancelledError is not an
\* Exception, so no "except Exception" of start() or _dispatch catches it: a
\* dispatch the task was awaiting ends with it.
TaskCancelled(t) ==
    /\ LoopFree
    /\ task[t].cancel /\ task[t].pc \in Awaiting
    /\ task' = SetTask(t, "cancelled")
    /\ msgs' = IF task[t].pc = "dispatch"
               THEN [msgs EXCEPT ![task[t].cur].pc = "cancelled"]
               ELSE msgs
    /\ stopRun' = 0
    /\ UNCHANGED <<edgeVars, linkVars, halt, cfg, allow, channels, tasks, calls, stops, chan, sent, life, budget, loop>>

----------------------------------------------------------------------------
(* Inbound events of the callback-driven channels *)

\* _on_mqtt_message (client network thread): builds the IncomingMessage and
\* schedules on_message(incoming) on the loop; allowed_clients is not read.
MqttMessage(chat, sender) ==
    /\ chan["mqtt"].handle = "looping"
    /\ Len(msgs) < budget.msgs
    /\ msgs' = Append(msgs, [NewMsg("mqtt", chat, sender) EXCEPT !.pc = "handler"])
    /\ stopRun' = 0
    /\ UNCHANGED <<edgeVars, linkVars, halt, cfg, allow, channels, tasks, task, calls, stops, chan, sent, life, budget, loop>>

\* _WhatsAppHandler.do_POST (server thread): schedules _handle_incoming on the
\* loop; channel_id is the sender.
WhatsAppPost(sender) ==
    /\ chan["whatsapp"].handle = "serving"
    /\ Len(msgs) < budget.msgs
    /\ msgs' = Append(msgs, [NewMsg("whatsapp", sender, sender) EXCEPT !.pc = "handler"])
    /\ stopRun' = 0
    /\ UNCHANGED <<edgeVars, linkVars, halt, cfg, allow, channels, tasks, task, calls, stops, chan, sent, life, budget, loop>>

----------------------------------------------------------------------------
(* MessageRouter._dispatch *)

\* Channel.send really suspends in Telegram and WhatsApp (run_in_executor)
\* and in Discord and Slack (the client's HTTP call); MqttChannel.send has no
\* await, the Webhook and WebSocket send is "pass": these complete within the
\* caller's step.
SendSuspends(c) == c \in {"telegram", "whatsapp", "discord", "slack"}

\* WebhookChannel.send and WebSocketChannel.send do nothing, SlackChannel.send
\* catches every Exception of its call
SendMayRaise(c) == c \notin {"webhook", "websocket", "slack"}

\* the coroutine running _dispatch(m) can go on: it is a task of its own, or
\* the Telegram task that awaits it has no cancellation pending
Uncancelled(m) == IF msgs[m].owner = 0 THEN TRUE ELSE ~task[msgs[m].owner].cancel

\* self._channels.get(msg.channel)
Lookup(name) == IF name \in channels THEN name ELSE "none"

ReplyAddressLatest(m) == msgs[Len(msgs)].chat

\* channel.send(msg.channel_id, response)
ReplyAddress(m) == msgs[m].chat

SendEntry(m, text, by) ==
    [msg |-> m, chan |-> Lookup(msgs[m].chan), to |-> ReplyAddress(m), text |-> text, by |-> by]

\* The handler await of message m completes with outcome h ("ok": it
\* returned, "exc": it raised an Exception); _dispatch then looks the channel
\* up by msg.channel and invokes its send.  A send that does not suspend ends
\* within the same step with outcome s.
HandlerDone(m, h, s) ==
    /\ LoopFree
    /\ msgs[m].pc = "handler"
    /\ Uncancelled(m)
    /\ LET resp == IF h = "ok" THEN Reply(m) ELSE ErrorReply(m)
           reg  == Lookup(msgs[m].chan) # "none"
           susp == reg /\ SendSuspends(msgs[m].chan)
       IN /\ msgs' = [msgs EXCEPT ![m].hres = h, ![m].resp = resp,
                                  ![m].pc = IF susp THEN "send" ELSE "done",
                                  ![m].sres = IF reg /\ ~susp THEN s ELSE "none"]
          /\ sent' = IF reg THEN Append(sent, SendEntry(m, resp, "router")) ELSE sent
          /\ susp => s = "ok"
          /\ s = "exc" => SendMayRaise(msgs[m].chan)
    /\ stopRun' = 0
    /\ UNCHANGED <<edgeVars, linkVars, halt, cfg, allow, channels, tasks, task, calls, stops, chan, life, budget, loop>>

HandlerReturns(m) == \E s \in {"ok", "exc"} : HandlerDone(m, "ok", s)

HandlerRaises(m) == \E s \in {"ok", "exc"} : HandlerDone(m, "exc", s)

\* The awaited send of message m ends with outcome s; an exception is logged
\* and _dispatch returns the response.  In the Telegram task control goes back
\* to the update loop at once.
SendDone(m, s) ==
    /\ LoopFree
    /\ msgs[m].pc = "send"
    /\ s = "exc" => SendMayRaise(msgs[m].chan)
    /\ Uncancelled(m)
    /\ LET ms1 == [msgs EXCEPT ![m].pc = "done", ![m].sres = s]
           t   == msgs[m].owner
       IN IF t = 0
          THEN msgs' = ms1 /\ UNCHANGED task
          ELSE LET r == TgLoop(ms1, task[t].batch, t)
               IN /\ msgs' = r.msgs
                  /\ task' = [task EXCEPT ![t].pc = r.pc, ![t].batch = r.batch, ![t].cur = r.cur]
    /\ stopRun' = 0
    /\ UNCHANGED <<edgeVars, linkVars, halt, cfg, allow, channels, tasks, calls, stops, chan, sent, life, budget, loop>>

SendReturns(m) == SendDone(m, "ok")

SendRaisesRetried(m) ==
    /\ LoopFree
    /\ msgs[m].pc = "send"
    /\ Uncancelled(m)
    /\ msgs' = [msgs EXCEPT ![m].sres = "exc"]
    /\ sent' = Append(sent, SendEntry(m, msgs[m].resp, "router"))
    /\ stopRun' = 0
    /\ UNCHANGED <<edgeVars, linkVars, halt, cfg, allow, channels, tasks, task, calls, stops, chan, life, budget, loop>>

SendRaises(m) == SendDone(m, "exc")

\* WhatsAppChannel._handle_incoming: after on_message returned, the channel
\* itself calls self.send(sender_id, response).
WhatsAppOwnSend(m) ==
    /\ LoopFree
    /\ msgs[m].chan = "whatsapp" /\ msgs[m].pc = "done"
    /\ ~\E i \in DOMAIN sent : sent[i].msg = m /\ sent[i].by = "channel"
    /\ sent' = Append(sent, SendEntry(m, msgs[m].resp, "channel"))
    /\ stopRun' = 0
    /\ UNCHANGED <<edgeVars, linkVars, halt, cfg, allow, channels, tasks, task, calls, stops, chan, msgs, life, budget, loop>>

----------------------------------------------------------------------------
(* The gateway channels: start() *)

\* WebhookChannel.start: HTTPServer(...) raises when the port cannot be bound
\* (always so while an earlier server of this channel holds it); otherwise
\* _running = True and _serve_loop is handed to the executor.
WebhookBegin(t) ==
    /\ LoopFree
    /\ task[t].chan = "webhook" /\ task[t].pc = "new" /\ ~task[t].cancel
    /\ \/ /\ task' = SetTask(t, "failed")
          /\ UNCHANGED <<chan, life>>
       \/ /\ chan["webhook"].handle = "none"
          /\ task' = SetTask(t, "serve")
          /\ chan' = [chan EXCEPT !["webhook"] = [running |-> TRUE, handle |-> "bound"]]
          /\ life' = [life EXCEPT !["webhook"] = Enter(@, "Running")]
    /\ stopRun' = 0
    /\ UNCHANGED <<edgeVars, linkVars, halt, cfg, allow, channels, tasks, calls, stops, msgs, sent,
                   budget, loop>>

\* _serve_loop (executor thread): while self._running: handle_request()
WebhookServe ==
    /\ chan["webhook"] = [running |-> TRUE, handle |-> "bound"]
    /\ chan' = [chan EXCEPT !["webhook"].handle = "serving"]
    /\ stopRun' = 0
    /\ UNCHANGED <<edgeVars, linkVars, halt, cfg, allow, channels, tasks, task, calls, stops, msgs,
                   sent, life, budget, loop>>

\* WebSocketChannel.start: ImportError -> return; otherwise
\* await websockets.serve(handler, host, port)
WebSocketBegin(t) ==
    /\ LoopFree
    /\ task[t].chan = "websocket" /\ task[t].pc = "new" /\ ~task[t].cancel
    /\ \E pc \in {"early", "bind"} : task' = SetTask(t, pc)
    /\ stopRun' = 0
    /\ UNCHANGED <<edgeVars, linkVars, halt, cfg, allow, channels, tasks, calls, stops, chan, msgs,
                   sent, life, budget, loop>>

\* websockets.serve raises (port in use), or self._server is assigned and the
\* task awaits asyncio.Future() for ever
WebSocketBound(t) ==
    /\ LoopFree
    /\ task[t].chan = "websocket" /\ task[t].pc = "bind" /\ ~task[t].cancel
    /\ \/ /\ task' = SetTask(t, "failed")
          /\ UNCHANGED <<chan, life>>
       \/ /\ chan["websocket"].handle = "none"
          /\ task' = SetTask(t, "forever")
          /\ chan' = [chan EXCEPT !["websocket"].handle = "serving"]
          /\ life' = [life EXCEPT !["websocket"] = Enter(@, "Running")]
    /\ stopRun' = 0
    /\ UNCHANGED <<edgeVars, linkVars, halt, cfg, allow, channels, tasks, calls, stops, msgs, sent,
                   budget, loop>>

\* DiscordChannel.start: ImportError -> return; self._client = client; no
\* token -> return; otherwise await client.start(self._token)
DiscordBegin(t) ==
    /\ LoopFree
    /\ task[t].chan = "discord" /\ task[t].pc = "new" /\ ~task[t].cancel
    /\ \/ /\ task' = SetTask(t, "early")
          /\ UNCHANGED chan
       \/ /\ \E pc \in {"early", "login"} : task' = SetTask(t, pc)
          /\ chan' = [chan EXCEPT !["discord"].handle = "created"]
    /\ stopRun' = 0
    /\ UNCHANGED <<edgeVars, linkVars, halt, cfg, allow, channels, tasks, calls, stops, msgs, sent,
                   life, budget, loop>>

\* client.start: the login fails and raises, or the gateway connection is up
\* and the client's event handlers are called from now on
DiscordConnected(t) ==
    /\ LoopFree
    /\ task[t].chan = "discord" /\ task[t].pc = "login" /\ ~task[t].cancel
    /\ \/ /\ task' = SetTask(t, "failed")
          /\ UNCHANGED <<chan, life>>
       \/ /\ task' = SetTask(t, "gateway")
          /\ chan' = [chan EXCEPT !["discord"].handle = "connected"]
          /\ life' = [life EXCEPT !["discord"] = Enter(@, "Running")]
    /\ stopRun' = 0
    /\ UNCHANGED <<edgeVars, linkVars, halt, cfg, allow, channels, tasks, calls, stops, msgs, sent,
                   budget, loop>>

\* SlackChannel.start: ImportError or a missing token -> return; otherwise
\* self._app = app and await handler.start_async()
SlackBegin(t) ==
    /\ LoopFree
    /\ task[t].chan = "slack" /\ task[t].pc = "new" /\ ~task[t].cancel
    /\ \/ /\ task' = SetTask(t, "early")
          /\ UNCHANGED chan
       \/ /\ task' = SetTask(t, "handshake")
          /\ chan' = [chan EXCEPT !["slack"].handle = "created"]
    /\ stopRun' = 0
    /\ UNCHANGED <<edgeVars, linkVars, halt, cfg, allow, channels, tasks, calls, stops, msgs, sent,
                   life, budget, loop>>

\* start_async: connecting raises, or the socket is connected and the task
\* sleeps for ever while the app's listeners are called
SlackConnected(t) ==
    /\ LoopFree
    /\ task[t].chan = "slack" /\ task[t].pc = "handshake" /\ ~task[t].cancel
    /\ \/ /\ task' = SetTask(t, "failed")
          /\ UNCHANGED <<chan, life>>
       \/ /\ task' = SetTask(t, "asleep")
          /\ chan' = [chan EXCEPT !["slack"].handle = "connected"]
          /\ life' = [life EXCEPT !["slack"] = Enter(@, "Running")]
    /\ stopRun' = 0
    /\ UNCHANGED <<edgeVars, linkVars, halt, cfg, allow, channels, tasks, calls, stops, msgs, sent,
                   budget, loop>>

----------------------------------------------------------------------------
(* The gateway channels: inbound events and their own deliveries *)

\* an inbound event of channel c enters msgs; an event the channel's own
\* filters reject is dropped, an admitted one is handed to on_message
Inbound(c, chat, sender, pc) ==
    /\ Len(msgs) < budget.msgs
    /\ msgs' = Append(msgs, [NewMsg(c, chat, sender) EXCEPT !.pc = pc])
    /\ stopRun' = 0
    /\ UNCHANGED <<edgeVars, linkVars, halt, cfg, allow, channels, tasks, task, calls, stops, chan,
                   sent, life, budget, loop>>

\* the channel itself delivers text as the answer to message m
Delivers(m, text) ==
    /\ ~\E i \in DOMAIN sent : sent[i].msg = m /\ sent[i].by = "channel"
    /\ sent' = Append(sent, SendEntry(m, text, "channel"))
    /\ stopRun' = 0
    /\ UNCHANGED <<edgeVars, linkVars, halt, cfg, allow, channels, tasks, task, calls, stops, chan,
                   msgs, life, budget, loop>>

\* Handler.do_POST (server thread): a POST with a text field becomes an
\* IncomingMessage with channel_id "webhook", scheduled on the loop
WebhookPost(sender) ==
    /\ chan["webhook"].handle = "serving"
    /\ Inbound("webhook", "webhook", sender, "handler")

\* do_POST: future.result() gives the response, written as the HTTP answer
WebhookReply(m) ==
    /\ msgs[m].chan = "webhook" /\ msgs[m].pc = "done"
    /\ Delivers(m, msgs[m].resp)

\* handler(ws): a frame with a text field is given to _stream_agent, which
\* spawns the agent binary; on_message is not called
WebSocketMessage(sender) ==
    /\ LoopFree
    /\ chan["websocket"].handle = "serving"
    /\ Inbound("websocket", "ws", sender, "agent")

\* _stream_agent: the agent's output lines and the "done" frame are sent on
\* the connection
WebSocketStreamed(m) ==
    /\ LoopFree
    /\ msgs[m].chan = "websocket" /\ msgs[m].pc = "agent"
    /\ ~\E i \in DOMAIN sent : sent[i].msg = m
    /\ sent' = Append(sent, SendEntry(m, [kind |-> "agent", of |-> m], "channel"))
    /\ msgs' = [msgs EXCEPT ![m].pc = "streamed"]
    /\ stopRun' = 0
    /\ UNCHANGED <<edgeVars, linkVars, halt, cfg, allow, channels, tasks, task, calls, stops, chan,
                   life, budget, loop>>

\* on_message_event: own messages, guilds and channels outside the
\* allowlists, messages that are neither a mention nor a DM and empty texts
\* return at once (admitted = FALSE); the others await on_message(msg)
DiscordEvent(e, admitted) ==
    /\ LoopFree
    /\ chan["discord"].handle = "connected"
    /\ Inbound("discord", e[1], e[2], IF admitted THEN "handler" ELSE "dropped")

\* on_message_event, after on_message returned: message.channel.send(response)
DiscordOwnSend(m) ==
    /\ LoopFree
    /\ msgs[m].chan = "discord" /\ msgs[m].pc = "done"
    /\ Delivers(m, msgs[m].resp)

\* _handle_event: a channel outside the allowlist or an empty text returns at
\* once; the others await self._on_message(msg)
SlackEvent(e, admitted) ==
    /\ LoopFree
    /\ chan["slack"].handle = "connected"
    /\ Inbound("slack", e[1], e[2], IF admitted THEN "handler" ELSE "dropped")

\* _handle_event, after on_message returned: say(text=response, channel=...)
SlackOwnSend(m) ==
    /\ LoopFree
    /\ msgs[m].chan = "slack" /\ msgs[m].pc = "done"
    /\ Delivers(m, msgs[m].resp)

----------------------------------------------------------------------------
(* Channel.stop and MessageRouter.stop_all *)

\* TelegramChannel.stop: self._running = False
TelegramStop(s) == [running |-> FALSE, handle |-> s.handle, raised |-> FALSE]

MqttStopUnguarded(s) ==
    [running |-> FALSE, handle |-> "none", raised |-> s.handle = "none"]

\* MqttChannel.stop: _running = False; if self._client: loop_stop, disconnect, None
MqttStop(s) == [running |-> FALSE, handle |-> "none", raised |-> FALSE]

\* WhatsAppChannel.stop: if self._server: self._server.shutdown()
WhatsAppStop(s) ==
    [running |-> s.running,
     handle |-> IF s.handle = "none" THEN "none" ELSE "shut",
     raised |-> FALSE]

\* WebhookChannel.stop: _running = False; if self._server: shutdown().
\* shutdown() waits for serve_forever to end, but this server is driven by
\* handle_request() calls, so the wait never ends.
WebhookStop(s) ==
    [running |-> FALSE,
     handle |-> IF s.handle = "none" THEN "none" ELSE "hung",
     raised |-> FALSE]

\* WebSocketChannel.stop: if self._server: close(); await wait_closed(); None
WebSocketStop(s) ==
    [running |-> s.running,
     handle |-> IF s.handle = "none" THEN "none" ELSE "closing",
     raised |-> FALSE]

\* DiscordChannel.stop: if self._client: await self._client.close()
\* (closing a client that was never started, or is closed, has nothing to await)
DiscordStop(s) ==
    [running |-> s.running,
     handle |-> CASE s.handle = "connected" -> "closing"
                  [] s.handle = "created"   -> "closed"
                  [] OTHER                  -> s.handle,
     raised |-> FALSE]

\* SlackChannel.stop: pass
SlackStop(s) == [running |-> s.running, handle |-> s.handle, raised |-> FALSE]

ChannelStop(c, s) ==
    CASE c = "telegram"  -> TelegramStop(s)
      [] c = "mqtt"      -> MqttStop(s)
      [] c = "whatsapp"  -> WhatsAppStop(s)
      [] c = "webhook"   -> WebhookStop(s)
      [] c = "websocket" -> WebSocketStop(s)
      [] c = "discord"   -> DiscordStop(s)
      [] c = "slack"     -> SlackStop(s)

\* for channel in self._channels.values(): await channel.stop()
\* The pass over the channels ends ("done"), leaves the loop when a stop()
\* raises ("raised"), is suspended inside a stop() that awaits ("waits"), or
\* stays for ever inside a stop() that does not return ("hangs").
RECURSIVE StopChannels(_, _)
StopChannels(cs, st) ==
    IF cs = <<>>
    THEN [st |-> st, raised |-> FALSE, stopped |-> {}, how |-> "done",
          at |-> "none", rest |-> <<>>]
    ELSE LET r == ChannelStop(Head(cs), st[Head(cs)])
             st1 == [st EXCEPT ![Head(cs)] = [running |-> r.running, handle |-> r.handle]]
             how == CASE r.raised             -> "raised"
                      [] r.handle = "closing" -> "waits"
                      [] r.handle = "hung"    -> "hangs"
                      [] OTHER                -> "done"
         IN IF how # "done"
            THEN [st |-> st1, raised |-> r.raised, stopped |-> {}, how |-> how,
                  at |-> Head(cs), rest |-> Tail(cs)]
            ELSE LET rest == StopChannels(Tail(cs), st1)
                 IN [rest EXCEPT !.stopped = @ \cup {Head(cs)}]

CancelFirst(tk, ts) ==
    [t \in DOMAIN tk |->
        IF ts # <<>> /\ t = ts[1] /\ tk[t].pc \notin Finished
        THEN [tk[t] EXCEPT !.cancel = TRUE] ELSE tk[t]]

\* for task in self._tasks: task.cancel()   (a no-op on a finished task)
CancelAll(tk, ts) ==
    [t \in DOMAIN tk |->
        IF t \in Range(ts) /\ tk[t].pc \notin Finished
        THEN [tk[t] EXCEPT !.cancel = TRUE] ELSE tk[t]]

\* what a pass r over the channels leaves behind, from the point stop_all
\* reached: the task list is cleared and the call returns only when the pass
\* ended; cs are the channels the call has acted on before this pass
StopPass(r, cs) ==
    /\ chan' = r.st
    /\ tasks' = IF r.how = "done" THEN <<>> ELSE tasks
    /\ stops' = IF r.how \in {"done", "raised"}
                THEN Append(stops, IF r.raised THEN "raised" ELSE "returned")
                ELSE stops
    /\ stopRun' = IF r.how = "done" THEN stopRun + 1 ELSE 0
    /\ halt' = IF r.how = "waits"
               THEN [at |-> r.at, rest |-> r.rest, seen |-> channels]
               ELSE NoHalt
    /\ loop' = IF r.how = "hangs" THEN -1 ELSE loop
    /\ life' = [c \in Kinds |->
          IF c \in cs
          THEN LET l == Enter(life[c], "Stopping")
               IN IF c \in r.stopped THEN Enter(l, "Stopped") ELSE l
          ELSE life[c]]

StopAllForgets ==
    /\ LoopFree
    /\ halt = NoHalt
    /\ Len(stops) < budget.stops
    /\ task' = CancelAll(task, tasks)
    /\ channels' = {}
    /\ StopPass(StopChannels(Values, chan), {c \in Kinds : \E t \in Range(tasks) : task[t].chan = c})
    /\ UNCHANGED <<edgeVars, linkVars, cfg, allow, calls, msgs, sent, budget>>

\* stop_all up to its return or its first suspension; a second stop_all is
\* not called while one is suspended
StopAll ==
    /\ LoopFree
    /\ halt = NoHalt
    /\ Len(stops) < budget.stops
    /\ task' = CancelAll(task, tasks)
    /\ StopPass(StopChannels(Values, chan), {c \in Kinds : \E t \in Range(tasks) : task[t].chan = c})
    /\ UNCHANGED <<edgeVars, linkVars, cfg, allow, channels, calls, msgs, sent, budget>>

\* the close awaited inside stop() completes and the loop over the channels
\* goes on; the dict iterator raises RuntimeError if a channel was registered
\* in the meantime
StopAllResume ==
    /\ LoopFree
    /\ halt # NoHalt
    /\ LET closed == [chan EXCEPT ![halt.at].handle =
                                     IF halt.at = "discord" THEN "closed" ELSE "none"]
       IN IF channels # halt.seen
          THEN /\ chan' = closed
               /\ stops' = Append(stops, "registry")
               /\ halt' = NoHalt
               /\ stopRun' = 0
               /\ UNCHANGED <<tasks, loop, life>>
          ELSE StopPass([StopChannels(halt.rest, closed) EXCEPT !.stopped = @ \cup {halt.at}],
                        {c \in Kinds : c = halt.at \/ \E t \in Range(tasks) : task[t].chan = c})
    /\ UNCHANGED <<edgeVars, linkVars, cfg, allow, channels, task, calls, msgs, sent, budget>>

----------------------------------------------------------------------------
Next ==
    \/ \E c \in Names : Register(c)
    \/ StartAll
    \/ \E k \in DOMAIN calls : StartAllReturn(k)
    \/ StopAll
    \/ \E t \in DOMAIN task : TelegramBegin(t)
    \/ \E t \in DOMAIN task : TelegramGetMe(t)
    \/ \E t \in DOMAIN task : TelegramPoll(t)
    \/ \E t \in DOMAIN task : TelegramPollError(t)
    \/ \E t \in DOMAIN task : TelegramSleepDone(t)
    \/ \E t \in DOMAIN task : MqttBegin(t)
    \/ \E t \in DOMAIN task : MqttConnect(t)
    \/ \E t \in DOMAIN task : WhatsAppBegin(t)
    \/ \E t \in DOMAIN task : TaskCancelled(t)
    \/ \E e \in Events : MqttMessage(e[1], e[2])
    \/ \E s \in Senders : WhatsAppPost(s)
    \/ \E m \in DOMAIN msgs : HandlerReturns(m)
    \/ \E m \in DOMAIN msgs : HandlerRaises(m)
    \/ \E m \in DOMAIN msgs : SendReturns(m)
    \/ \E m \in DOMAIN msgs : SendRaises(m)
    \/ \E m \in DOMAIN msgs : WhatsAppOwnSend(m)

----------------------------------------------------------------------------
(* The device link: frames *)

\* struct.pack(">H", n) raises struct.error outside 0..65535
Packable(n) == n \in 0..65535

\* struct.pack(">H", n)
Pack(n) == <<n \div 256, n % 256>>

UnpackLittleEndian(h) == h[2] * 256 + h[1]

\* struct.unpack(">H", len_data)[0]
Unpack(h) == h[1] * 256 + h[2]

\* what the device puts on the stream for payload p
Frame(p) == Pack(Len(p)) \o p

Take(q, n) == SubSeq(q, 1, n)

Drop(q, n) == SubSeq(q, n + 1, Len(q))

----------------------------------------------------------------------------
(* The device link: KrillClawBridge.handle_message *)

\* The requests a device sends, by the byte that tells their texts apart; a
\* request's payload is that byte followed by the closing brace.
Catalogue ==
    [k \in 1..8 |->
        CASE k = 1 -> [type |-> "api",  name |-> "",          arg |-> "json"]
          [] k = 2 -> [type |-> "api",  name |-> "",          arg |-> "malformed"]
          [] k = 3 -> [type |-> "tool", name |-> "bash",      arg |-> "object"]
          [] k = 4 -> [type |-> "tool", name |-> "read_file", arg |-> "json"]
          [] k = 5 -> [type |-> "tool", name |-> "bash",      arg |-> "malformed"]
          [] k = 6 -> [type |-> "tool", name |-> "nope",      arg |-> "object"]
          [] k = 7 -> [type |-> "ping", name |-> "",          arg |-> "object"]
          [] k = 8 -> [type |-> "",     name |-> "",          arg |-> "object"]]

Payload(k) == <<k, 125>>

\* a payload that is not JSON
Junk == <<9>>

NoDoc == [type |-> "", name |-> "", arg |-> ""]

\* json.loads(data): the parsed request, or JSONDecodeError
JsonLoads(p) ==
    IF Len(p) = 2 /\ p[2] = 125 /\ p[1] \in DOMAIN Catalogue
    THEN [ok |-> TRUE, doc |-> Catalogue[p[1]]]
    ELSE [ok |-> FALSE, doc |-> NoDoc]

\* the tools _handle_tool knows
Tools == {"bash", "read_file", "write_file", "search"}

\* byte lengths of the replies: an error text; a result, which may or may
\* not fit the length header
ShortLen == 40
ReplyLens == {300, 65536}

\* what the upstream API and the tool's execution do, and how long a result is
Envs == [api : {"ok", "error"}, exec : {"ok", "fails", "raises"}, len : ReplyLens]

Raised(exc, doc) ==
    [raised |-> TRUE, exc |-> exc, doc |-> doc, kind |-> "", error |-> FALSE,
     text |-> "", len |-> 0, exec |-> "none", upstream |-> 0, about |-> ""]

Replied(doc, kind, error, text, len, exec) ==
    [raised |-> FALSE, exc |-> "", doc |-> doc, kind |-> kind, error |-> error,
     text |-> text, len |-> len, exec |-> exec, upstream |-> 0, about |-> ""]

HandleApiRetries(d, env) ==
    IF d.arg = "malformed" THEN Raised("JSONDecodeError", d)
    ELSE IF env.api = "ok"
         THEN [Replied(d, "api_result", FALSE, "body", env.len, "none")
                 EXCEPT !.upstream = 1]
         ELSE [Replied(d, "api_result", TRUE, "exception", ShortLen, "none")
                 EXCEPT !.upstream = 2]

\* _handle_api: json.loads(msg.get("body")) is outside the try; inside it is
\* the one call of self.client.messages.create, answered with the response
\* under "body", or with str(e) under "error" when the call raises
HandleApi(d, env) ==
    IF d.arg = "malformed" THEN Raised("JSONDecodeError", d)
    ELSE IF env.api = "ok"
         THEN [Replied(d, "api_result", FALSE, "body", env.len, "none")
                 EXCEPT !.upstream = 1]
         ELSE [Replied(d, "api_result", TRUE, "exception", ShortLen, "none")
                 EXCEPT !.upstream = 1]

HandleToolUnguarded(d, env) ==
    IF d.arg = "malformed" THEN Raised("JSONDecodeError", d)
    ELSE IF d.name \notin Tools
         THEN Replied(d, "tool_result", TRUE, "Unknown tool", ShortLen, "none")
         ELSE CASE env.exec = "raises" -> [Raised("Exception", d) EXCEPT !.exec = "raises"]
                [] env.exec = "fails"  ->
                       Replied(d, "tool_result", TRUE, "output", env.len, "fails")
                [] OTHER -> Replied(d, "tool_result", FALSE, "output", env.len, "ok")

\* _handle_tool: an input given as a string is decoded outside the try; the
\* tools run inside it, and any Exception becomes an error result; an unknown
\* name is answered with an error result
HandleTool(d, env) ==
    IF d.arg = "malformed" THEN Raised("JSONDecodeError", d)
    ELSE IF d.name \notin Tools
         THEN Replied(d, "tool_result", TRUE, "Unknown tool", ShortLen, "none")
         ELSE CASE env.exec = "raises" ->
                       Replied(d, "tool_result", TRUE, "exception", ShortLen, "raises")
                [] env.exec = "fails"  ->
                       Replied(d, "tool_result", TRUE, "output", env.len, "fails")
                [] OTHER -> Replied(d, "tool_result", FALSE, "output", env.len, "ok")

HandleMessageDefaultApi(p, env) ==
    LET j == JsonLoads(p)
    IN IF ~j.ok THEN Raised("JSONDecodeError", NoDoc)
       ELSE CASE j.doc.type \in {"api", ""} -> HandleApi(j.doc, env)
              [] j.doc.type = "tool" -> HandleTool(j.doc, env)
              [] OTHER -> [Replied(j.doc, "error", TRUE, "Unknown type", ShortLen, "none")
                             EXCEPT !.about = j.doc.type]

\* handle_message: json.loads(data), then by msg.get("type", ""); a type
\* other than "api" and "tool" is answered with {"error": "Unknown type: <type>"}
HandleMessage(p, env) ==
    LET j == JsonLoads(p)
    IN IF ~j.ok THEN Raised("JSONDecodeError", NoDoc)
       ELSE CASE j.doc.type = "api"  -> HandleApi(j.doc, env)
              [] j.doc.type = "tool" -> HandleTool(j.doc, env)
              [] OTHER -> [Replied(j.doc, "error", TRUE, "Unknown type", ShortLen, "none")
                             EXCEPT !.about = j.doc.type]

----------------------------------------------------------------------------
(* The device link: sessions *)

\* A device link is served on the Unix socket or on the serial port
InitLink ==
    /\ cfg = [c \in Kinds |-> NotGiven]
    /\ budget = [starts |-> 0, stops |-> 0, tasks |-> 0, msgs |-> 0, batch |-> 0]
    /\ Constructed
    /\ NoEdge
    /\ \E k \in {"socket", "serial"} :
         /\ srv = [kind |-> k, up |-> TRUE, sends |-> 0]
         /\ dev = IF k = "serial"
                  THEN <<[inbox |-> <<>>, eof |-> FALSE, pc |-> "header", need |-> 0,
                          open |-> TRUE, out |-> <<>>, framed |-> <<>>,
                          declared |-> <<>>, heads |-> 0, handed |-> <<>>,
                          lost |-> 0]>>
                  ELSE <<>>

\* asyncio.start_unix_server calls handle_client for every connection
Accept ==
    /\ srv.kind = "socket" /\ srv.up
    /\ Len(dev) < MaxSessions
    /\ dev' = Append(dev, [inbox |-> <<>>, eof |-> FALSE, pc |-> "header", need |-> 0,
                           open |-> TRUE, out |-> <<>>, framed |-> <<>>,
                           declared |-> <<>>, heads |-> 0, handed |-> <<>>,
                           lost |-> 0])
    /\ UNCHANGED <<srv, routerVars, edgeVars>>

\* the payloads a device frames
Requests == {Payload(k) : k \in DOMAIN Catalogue} \cup {Junk, <<>>}

\* the device writes one whole frame
DeviceSends(s, p) ==
    /\ srv.up /\ srv.sends < MaxFrames
    /\ ~dev[s].eof
    /\ dev' = [dev EXCEPT ![s].inbox = @ \o Frame(p),
                          ![s].framed = Append(@, p),
                          ![s].declared = Append(@, Len(p))]
    /\ srv' = [srv EXCEPT !.sends = @ + 1]
    /\ UNCHANGED <<routerVars, edgeVars>>

\* where a stream can end: n is the length the last header announces, k the
\* number of bytes of that frame which arrive
Cuts == {[n |-> 0, k |-> 0], [n |-> 2, k |-> 1], [n |-> 2, k |-> 3],
         [n |-> 300, k |-> 2], [n |-> 65535, k |-> 2]}

CutBytes(c) == Take(Pack(c.n) \o Payload(3), c.k)

\* the device's end of the stream closes, possibly inside a frame
DeviceEnds(s, c) ==
    /\ srv.up
    /\ ~dev[s].eof
    /\ dev' = [dev EXCEPT ![s].inbox = @ \o CutBytes(c),
                          ![s].eof = TRUE,
                          ![s].declared = IF c.k >= 2 THEN Append(@, c.n) ELSE @]
    /\ UNCHANGED <<srv, routerVars, edgeVars>>

EndSessionWriterOpen(d, how) == [d EXCEPT !.pc = how]

\* handle_client's loop is left by an exception: finally: writer.close()
EndSession(d, how) == [d EXCEPT !.pc = how, !.open = FALSE]

\* struct.unpack(">H", len_data)[0] on the two bytes read
HeaderRead(d) ==
    [d EXCEPT !.inbox = Drop(@, 2), !.need = Unpack(Take(d.inbox, 2)),
              !.pc = "payload", !.heads = @ + 1]

\* len_data = await reader.readexactly(2): IncompleteReadError at the end of
\* the stream
SocketReadHeader(s) ==
    /\ srv.kind = "socket"
    /\ dev[s].pc = "header"
    /\ IF Len(dev[s].inbox) >= 2
       THEN dev' = [dev EXCEPT ![s] = HeaderRead(@)]
       ELSE /\ dev[s].eof
            /\ dev' = [dev EXCEPT ![s] = EndSession(@, "closed")]
    /\ UNCHANGED <<srv, routerVars, edgeVars>>

\* the requests handed to handle_message and what came of them
Call(d, p, r) == Append(d.handed, [payload |-> p, need |-> d.need, res |-> r])

\* writer.write(struct.pack(">H", len(response))); writer.write(response)
Written(d, r) == Append(d.out, [hdr |-> Pack(r.len), len |-> r.len, call |-> Len(d.handed) + 1])

\* msg_data = await reader.readexactly(msg_len), handle_message, the two
\* writes; an exception other than the two caught ones leaves the loop too
SocketReadPayload(s, env) ==
    /\ srv.kind = "socket"
    /\ dev[s].pc = "payload"
    /\ IF Len(dev[s].inbox) >= dev[s].need
       THEN LET p == Take(dev[s].inbox, dev[s].need)
                r == HandleMessage(p, env)
                d == [dev[s] EXCEPT !.inbox = Drop(@, dev[s].need),
                                    !.handed = Call(dev[s], p, r)]
            IN dev' = [dev EXCEPT ![s] =
                         IF r.raised \/ ~Packable(r.len)
                         THEN EndSession(d, "crashed")
                         ELSE [d EXCEPT !.out = Written(dev[s], r), !.pc = "drain"]]
       ELSE /\ dev[s].eof
            /\ dev' = [dev EXCEPT ![s] = EndSession(@, "closed")]
    /\ UNCHANGED <<srv, routerVars, edgeVars>>

\* await writer.drain() returns
SocketDrained(s) ==
    /\ srv.kind = "socket"
    /\ dev[s].pc = "drain"
    /\ dev' = [dev EXCEPT ![s].pc = "header"]
    /\ UNCHANGED <<srv, routerVars, edgeVars>>

\* await writer.drain() raises ConnectionResetError
SocketDrainReset(s) ==
    /\ srv.kind = "socket"
    /\ dev[s].pc = "drain"
    /\ dev[s].eof
    /\ dev' = [dev EXCEPT ![s] = EndSession(@, "closed")]
    /\ UNCHANGED <<srv, routerVars, edgeVars>>

\* len_data = ser.read(2) returns two bytes
SerialReadHeader(s) ==
    /\ srv.kind = "serial" /\ srv.up
    /\ dev[s].pc = "header"
    /\ Len(dev[s].inbox) >= 2
    /\ dev' = [dev EXCEPT ![s] = HeaderRead(@)]
    /\ UNCHANGED <<srv, routerVars, edgeVars>>

\* ser.read(2) returns fewer than two bytes: continue
SerialShortHeader(s) ==
    /\ srv.kind = "serial" /\ srv.up
    /\ dev[s].pc = "header"
    /\ Len(dev[s].inbox) < 2 /\ dev[s].eof
    /\ dev' = [dev EXCEPT ![s].inbox = <<>>, ![s].lost = @ + Len(dev[s].inbox)]
    /\ UNCHANGED <<srv, routerVars, edgeVars>>

\* ser.read raises at the end of the stream: nothing in serial_bridge catches it
SerialReadRaises(s) ==
    /\ srv.kind = "serial" /\ srv.up
    /\ \/ dev[s].pc = "header" /\ Len(dev[s].inbox) < 2
       \/ dev[s].pc = "payload" /\ Len(dev[s].inbox) < dev[s].need
    /\ dev[s].eof
    /\ dev' = [dev EXCEPT ![s].pc = "crashed"]
    /\ srv' = [srv EXCEPT !.up = FALSE]
    /\ UNCHANGED <<routerVars, edgeVars>>

\* msg_data = ser.read(msg_len) is used as it comes, then handle_message and
\* the two ser.write calls; any exception ends serial_bridge
SerialReadPayload(s, env) ==
    /\ srv.kind = "serial" /\ srv.up
    /\ dev[s].pc = "payload"
    /\ Len(dev[s].inbox) >= dev[s].need \/ dev[s].eof
    /\ LET n == IF Len(dev[s].inbox) >= dev[s].need THEN dev[s].need ELSE Len(dev[s].inbox)
           p == Take(dev[s].inbox, n)
           r == HandleMessage(p, env)
           d == [dev[s] EXCEPT !.inbox = Drop(@, n), !.handed = Call(dev[s], p, r)]
           dies == r.raised \/ ~Packable(r.len)
       IN /\ dev' = [dev EXCEPT ![s] =
                       IF dies THEN [d EXCEPT !.pc = "crashed"]
                       ELSE [d EXCEPT !.out = Written(dev[s], r), !.pc = "header"]]
          /\ srv' = [srv EXCEPT !.up = IF dies THEN FALSE ELSE @]
    /\ UNCHANGED <<routerVars, edgeVars>>

\* the device link
NextLink ==
    \/ Accept
    \/ \E s \in DOMAIN dev, p \in Requests : DeviceSends(s, p)
    \/ \E s \in DOMAIN dev, c \in Cuts : DeviceEnds(s, c)
    \/ \E s \in DOMAIN dev : SocketReadHeader(s)
    \/ \E s \in DOMAIN dev, env \in Envs : SocketReadPayload(s, env)
    \/ \E s \in DOMAIN dev : SocketDrained(s)
    \/ \E s \in DOMAIN dev : SocketDrainReset(s)
    \/ \E s \in DOMAIN dev : SerialReadHeader(s)
    \/ \E s \in DOMAIN dev : SerialShortHeader(s)
    \/ \E s \in DOMAIN dev : SerialReadRaises(s)
    \/ \E s \in DOMAIN dev, env \in Envs : SerialReadPayload(s, env)

SpecLink == InitLink /\ [][NextLink]_vars

----------------------------------------------------------------------------
(* The device link over BLE: ble_bridge *)

\* mtu = 244
Mtu == 244

\* response_data when it is empty
NoReply == [id |-> 0, len |-> 0]

BleNotifyInPlace(n) ==
    /\ srv.sends < MaxNotes
    /\ srv' = [srv EXCEPT !.sends = @ + 1]
    /\ dev' = [dev EXCEPT ![1].lens = Append(@, n),
                          ![1].pending = [id |-> srv.sends + 1, len |-> n],
                          ![1].data = IF dev[1].pc = "writing"
                                      THEN [id |-> srv.sends + 1, len |-> n] ELSE @]
    /\ UNCHANGED <<routerVars, edgeVars>>

\* notification_handler: response_data = bytearray(handle_message(data)); it
\* runs whenever the loop is not inside the write loop's synchronous code
BleNotify(n) ==
    /\ srv.sends < MaxNotes
    /\ srv' = [srv EXCEPT !.sends = @ + 1]
    /\ dev' = [dev EXCEPT ![1].lens = Append(@, n),
                          ![1].pending = [id |-> srv.sends + 1, len |-> n]]
    /\ UNCHANGED <<routerVars, edgeVars>>

\* if response_data: data = bytes(response_data); response_data = bytearray()
BleTake ==
    /\ dev[1].pc = "idle" /\ dev[1].pending # NoReply
    /\ dev' = [dev EXCEPT ![1].data = dev[1].pending, ![1].pending = NoReply,
                          ![1].pos = 0, ![1].pc = "writing"]
    /\ UNCHANGED <<srv, routerVars, edgeVars>>

\* chunk = data[i : i + mtu]; await client.write_gatt_char(RX_UUID, chunk)
BleWriteChunk ==
    /\ dev[1].pc = "writing" /\ dev[1].pos < dev[1].data.len
    /\ LET n == IF dev[1].data.len - dev[1].pos < Mtu
                THEN dev[1].data.len - dev[1].pos ELSE Mtu
       IN dev' = [dev EXCEPT
                    ![1].out = Append(@, [of |-> dev[1].data.id, from |-> dev[1].pos,
                                          len |-> n]),
                    ![1].pos = @ + n]
    /\ UNCHANGED <<srv, routerVars, edgeVars>>

\* the for loop is over: await asyncio.sleep(0.01), then the next round
BleSleep ==
    /\ dev[1].pc = "writing" /\ dev[1].pos >= dev[1].data.len
    /\ dev' = [dev EXCEPT ![1].pc = "idle"]
    /\ UNCHANGED <<srv, routerVars, edgeVars>>

SpecBle ==
    Served("ble") /\ [][\/ \E n \in {100, Mtu, Mtu + 1, 500} : BleNotify(n)
                        \/ BleTake
                        \/ BleWriteChunk
                        \/ BleSleep]_vars

----------------------------------------------------------------------------
(* Channel.send on the transports with a length ceiling *)

\* the ceiling on a message's length, and what is kept of a longer text
Ceiling == 4096
Kept == 4093

\* A text is the first `keep` characters of the reply numbered `of`, followed
\* by "..." when marked; a reply is told from the others by its length
TextLen(t) == t.keep + (IF t.marked THEN 3 ELSE 0)

TruncateLate(t) ==
    IF TextLen(t) > Ceiling THEN [t EXCEPT !.keep = Ceiling, !.marked = TRUE] ELSE t

\* if len(text) > 4096: text = text[:4093] + "..."
Truncate(t) ==
    IF TextLen(t) > Ceiling THEN [t EXCEPT !.keep = Kept, !.marked = TRUE] ELSE t

\* TelegramChannel.send and TelegramTransport._send_message: truncate, then
\* sendMessage, which the service refuses above its ceiling; _api_call turns
\* the refusal into {"ok": False} and the reply is lost.  The log says what
\* was given to send, what was put on the transport and whether it was taken.
TelegramSend(by, t) ==
    /\ Len(wire.log) < MaxSends
    /\ wire' = [wire EXCEPT !.log =
                  Append(@, [by |-> by, given |-> t, put |-> Truncate(t),
                             taken |-> TextLen(Truncate(t)) <= Ceiling])]
    /\ UNCHANGED <<routerVars, linkVars, http, ws, tool>>

\* MqttChannel.send: nothing without a client; otherwise the text is
\* published as it is
MqttSend(t) ==
    /\ Len(wire.log) < MaxSends
    /\ wire' = IF wire.client
               THEN [wire EXCEPT !.log = Append(@, [by |-> "mqtt", given |-> t, put |-> t,
                                                    taken |-> TRUE])]
               ELSE wire
    /\ UNCHANGED <<routerVars, linkVars, http, ws, tool>>

SpecSend ==
    Served("send") /\
    [][\E n \in {1, Kept, Ceiling, Ceiling + 1, 5000} :
          LET t == [of |-> n, keep |-> n, marked |-> FALSE]
          IN \/ \E by \in {"telegram", "transport"} : TelegramSend(by, t)
             \/ MqttSend(t)]_vars

----------------------------------------------------------------------------
(* WebhookChannel: Handler.do_POST *)

DoPostOpen(token, r) ==
    CASE r.clen = "bad" -> [resp |-> <<>>, pc |-> "raised"]
      [] r.body = "junk" -> [resp |-> <<[status |-> 400, body |-> "invalid JSON"]>>, pc |-> "done"]
      [] r.body = "list" -> [resp |-> <<>>, pc |-> "raised"]
      [] r.body = "notext" ->
             [resp |-> <<[status |-> 400, body |-> "missing text field"]>>, pc |-> "done"]
      [] OTHER -> [resp |-> <<>>, pc |-> "waiting"]

\* do_POST up to the call of on_message, for a POST r: its Authorization
\* header (absent, "Bearer <auth_token>", anything else), its Content-Length
\* (a number or not) and its body (an object with a text, an object without
\* one, JSON that is no object, not JSON).  The auth check, int(Content-Length),
\* json.loads in its try, data.get("text"); ValueError and AttributeError are
\* raised outside any try and leave do_POST without a response
DoPost(token, r) ==
    CASE token /\ r.auth # "bearer" ->
             [resp |-> <<[status |-> 401, body |-> "unauthorized"]>>, pc |-> "done"]
      [] r.clen = "bad" -> [resp |-> <<>>, pc |-> "raised"]
      [] r.body = "junk" -> [resp |-> <<[status |-> 400, body |-> "invalid JSON"]>>, pc |-> "done"]
      [] r.body = "list" -> [resp |-> <<>>, pc |-> "raised"]
      [] r.body = "notext" ->
             [resp |-> <<[status |-> 400, body |-> "missing text field"]>>, pc |-> "done"]
      [] OTHER -> [resp |-> <<>>, pc |-> "waiting"]

\* _serve_loop: handle_request takes the next POST once the one before it is
\* over; a POST that gets as far as on_message waits for its future
HttpRequest(r) ==
    /\ Len(http.log) < MaxPosts
    /\ \A i \in DOMAIN http.log : http.log[i].pc # "waiting"
    /\ LET d == DoPost(http.token, r)
       IN http' = [http EXCEPT !.log =
                     Append(@, [req |-> r, resp |-> d.resp, pc |-> d.pc,
                                msg |-> d.pc = "waiting"])]
    /\ UNCHANGED <<routerVars, linkVars, wire, ws, tool>>

\* future.result(timeout=120) returns the reply, or raises what the handler
\* raised or the timeout: either way {"text": response_text} is written
HttpAnswered(i, outcome) ==
    /\ http.log[i].pc = "waiting"
    /\ http' = [http EXCEPT
                  !.log[i].resp = <<[status |-> 200,
                                     body |-> IF outcome = "ok" THEN "text"
                                              ELSE "text [error]"]>>,
                  !.log[i].pc = "done"]
    /\ UNCHANGED <<routerVars, linkVars, wire, ws, tool>>

SpecHttp ==
    Served("http") /\
    [][\/ \E r \in [auth : {"none", "bearer", "other"}, clen : {"number", "bad"},
                     body : {"text", "notext", "list", "junk"}] : HttpRequest(r)
       \/ \E i \in DOMAIN http.log, o \in {"ok", "raises", "timeout"} :
             HttpAnswered(i, o)]_vars

----------------------------------------------------------------------------
(* WebSocketChannel: handler(ws) *)

\* the configured auth_token, and the tokens a client may present
Secret == <<"k", "e", "y">>
Presented == {Secret, Secret \o <<"2">>, <<"k", "e">>}

\* needle in hay
Contains(hay, needle) ==
    \E i \in 0..(Len(hay) - Len(needle)) : SubSeq(hay, i + 1, i + Len(needle)) = needle

\* f"token={self.auth_token}" in path
QueryAdmits(path) == Contains(path, <<"token=">> \o Secret)

\* handler(ws) starts for a new connection that presents token q in its
\* query string (<<>>: no query string): with auth_token set and the token
\* not found in getattr(ws, "path", ""), it waits for the first message; the
\* library may or may not give the connection a path attribute
WsConnect(q, seen) ==
    /\ Len(ws.conns) < MaxConns
    /\ LET path == CASE ~seen -> <<>>
                      [] q = <<>> -> <<"/">>
                      [] OTHER -> <<"/", "?", "token=">> \o q
       IN ws' = [ws EXCEPT !.conns =
                   Append(@, [query |-> q, first |-> <<>>, got |-> 0, runs |-> 0,
                              frames |-> <<>>,
                              pc |-> IF ws.token /\ ~QueryAdmits(path)
                                     THEN "auth" ELSE "open"])]
    /\ UNCHANGED <<routerVars, linkVars, wire, http, tool>>

\* the first message of a connection that has to authenticate: {"type":
\* "auth", "token": t} with the configured token is answered auth_ok; any
\* other document is answered "unauthorized" and the connection closed
WsAuth(c, t) ==
    /\ ws.conns[c].pc = "auth"
    /\ ws' = [ws EXCEPT
                !.conns[c].first = t,
                !.conns[c].frames = Append(@, IF t = Secret THEN "auth_ok" ELSE "unauthorized"),
                !.conns[c].pc = IF t = Secret THEN "open" ELSE "closed"]
    /\ UNCHANGED <<routerVars, linkVars, wire, http, tool>>

\* no first message within 10 s, or one that is not a JSON object: the
\* exception closes the connection
WsAuthFails(c) ==
    /\ ws.conns[c].pc = "auth"
    /\ ws' = [ws EXCEPT !.conns[c].pc = "closed"]
    /\ UNCHANGED <<routerVars, linkVars, wire, http, tool>>

\* async for raw in ws: invalid JSON, a ping and a frame without text are
\* answered and the loop goes on; a text is given to _stream_agent, which
\* sends the agent's output and the done frame
WsFrame(c, f) ==
    /\ ws.conns[c].pc = "open"
    /\ ws.conns[c].got < MaxWsFrames
    /\ ws' = [ws EXCEPT
                !.conns[c].got = @ + 1,
                !.conns[c].runs = IF f = "text" THEN @ + 1 ELSE @,
                !.conns[c].frames =
                    CASE f = "junk"   -> Append(@, "invalid JSON")
                      [] f = "ping"   -> Append(@, "pong")
                      [] f = "notext" -> Append(@, "missing text")
                      [] OTHER        -> @ \o <<"text", "done">>]
    /\ UNCHANGED <<routerVars, linkVars, wire, http, tool>>

SpecWs ==
    Served("ws") /\
    [][\/ \E q \in Presented \cup {<<>>}, seen \in BOOLEAN : WsConnect(q, seen)
       \/ \E c \in DOMAIN ws.conns, t \in Presented \cup {<<>>} : WsAuth(c, t)
       \/ \E c \in DOMAIN ws.conns : WsAuthFails(c)
       \/ \E c \in DOMAIN ws.conns, f \in {"text", "ping", "notext", "junk"} :
             WsFrame(c, f)]_vars

----------------------------------------------------------------------------
(* exec_tool_mode *)

\* exec_tool_mode(json_str) for a command argument a: invalid JSON, a JSON
\* object or other JSON; for an object, whether its action is in
\* TOOL_HANDLERS and what the handler does.  The result is the lines printed
\* to standard output and how the
\* call ends ("returns", "exit 1" by sys.exit(1), or the exception that
\* leaves it); data.get is called outside the two try blocks
ExecToolMode(a) ==
    CASE a.json = "invalid"   -> [stdout |-> <<"error: Invalid JSON">>, status |-> "exit 1"]
      [] a.json = "other"     -> [stdout |-> <<>>, status |-> "AttributeError"]
      [] a.action = "unknown" -> [stdout |-> <<"error: Unknown action">>, status |-> "exit 1"]
      [] a.handler = "raises" -> [stdout |-> <<"error: str(e)">>, status |-> "exit 1"]
      [] OTHER                -> [stdout |-> <<"result">>, status |-> "returns"]

\* python bridge.py --exec-tool <argument>
ExecTool(a) ==
    /\ Len(tool.runs) < MaxRuns
    /\ tool' = [tool EXCEPT !.runs = Append(@, [arg |-> a, res |-> ExecToolMode(a)])]
    /\ UNCHANGED <<routerVars, linkVars, wire, http, ws>>

SpecExec ==
    Served("tool") /\
    [][\E a \in [json : {"invalid", "object", "other"}, action : {"known", "unknown"},
                 handler : {"returns", "raises"}] : ExecTool(a)]_vars

----------------------------------------------------------------------------
(* hardware.handle_gpio_write *)

\* MAX_WRITES_PER_SEC = 10
MAX_WRITES_PER_SEC == 10

CheckRateLimitOffByOne(stamps, now) ==
    LET kept == SelectSeq(stamps, LAMBDA t : now - t < Window)
    IN IF Len(kept) > MAX_WRITES_PER_SEC
       THEN [ok |-> FALSE, stamps |-> stamps]
       ELSE [ok |-> TRUE, stamps |-> Append(kept, now)]

\* _check_rate_limit(pin) on the pin's list _write_timestamps[str(pin)], the
\* clock counting 1/Window of a second: keep
\* the timestamps with now - t < 1.0; with 10 of them left return False and
\* store nothing, else append now and store the list
CheckRateLimit(stamps, now) ==
    LET kept == SelectSeq(stamps, LAMBDA t : now - t < Window)
    IN IF Len(kept) >= MAX_WRITES_PER_SEC
       THEN [ok |-> FALSE, stamps |-> stamps]
       ELSE [ok |-> TRUE, stamps |-> Append(kept, now)]

\* time.time() moves on
Tick ==
    /\ tool.now < MaxClock
    /\ tool' = [tool EXCEPT !.now = @ + 1]
    /\ UNCHANGED <<routerVars, linkVars, wire, http, ws>>

\* handle_gpio_write({"pin": p, "value": v}) for an allowed pin: the rate
\* limit is checked, then the value is written to the line
GpioWrite(p) ==
    /\ tool.calls < MaxWrites
    /\ LET r == CheckRateLimit(tool.stamps[p], tool.now)
       IN tool' = [tool EXCEPT !.calls = @ + 1,
                               !.last = [pin |-> p, ok |-> r.ok],
                               !.stamps[p] = r.stamps,
                               !.hw[p] = IF r.ok THEN Append(@, tool.now) ELSE @]
    /\ UNCHANGED <<routerVars, linkVars, wire, http, ws>>

SpecGpio == Served("tool") /\ [][Tick \/ \E p \in DOMAIN tool.hw : GpioWrite(p)]_vars

\* the router with its gateway channels
\* ---------------------------------------------------------------------------
\* The search tool
\* ---------------------------------------------------------------------------

\* if len(lines) > 100: ... lines[:100]
SearchCap == 100

\* The search tool when grep prints n result lines: stdout is n lines, each
\* ended by a newline, so output.split("\n") has n + 1 elements, the last
\* one empty; with more than 100 elements the output is the first 100 of
\* them and the marker with the number of elements, else stdout as it is
SearchOutput(n) ==
    LET lines == n + 1
    IN IF lines > SearchCap
       THEN [results |-> SearchCap, marker |-> TRUE, total |-> lines]
       ELSE [results |-> n, marker |-> FALSE, total |-> 0]

\* _handle_tool with name "search" on a tree in which grep finds n lines
SearchTool(n) ==
    /\ Len(tool.runs) < MaxRuns
    /\ tool' = [tool EXCEPT !.runs = Append(@, [arg |-> n, res |-> SearchOutput(n)])]
    /\ UNCHANGED <<routerVars, linkVars, wire, http, ws>>

SpecSearch ==
    Served("tool") /\
    [][\E n \in {0, 1, 50, SearchCap - 1, SearchCap, SearchCap + 1, SearchCap + 2,
                 250, 1000, 5000} : SearchTool(n)]_vars

\* ---------------------------------------------------------------------------
\* MQTT: messages on the subscribed topic
\* ---------------------------------------------------------------------------

\* _on_mqtt_message for a payload p: JSON that is an object (with a text and
\* a sender_id field or without), other JSON, or no JSON.  json.loads and the
\* two data.get are inside the inner try, which catches JSONDecodeError only;
\* what else is raised is caught and logged by the outer try, and no
\* IncomingMessage is made
OnMqttMessage(p) ==
    /\ Len(wire.log) < MaxPubs
    /\ LET made == CASE p.json = "none" ->
                           <<[channel_id |-> wire.topic, text |-> "payload", sender_id |-> "mqtt"]>>
                     [] p.json = "object" ->
                           <<[channel_id |-> wire.topic,
                              text |-> IF p.text THEN "field" ELSE "payload",
                              sender_id |-> IF p.sender THEN "field" ELSE "mqtt"]>>
                     [] OTHER -> <<>>
       IN wire' = [wire EXCEPT !.log = Append(@, [payload |-> p, incoming |-> made])]
    /\ UNCHANGED <<routerVars, linkVars, http, ws, tool>>

SpecSubscribed ==
    Served("subscribed") /\
    [][\E p \in [json : {"object", "other", "none"}, text : BOOLEAN, sender : BOOLEAN] :
          OnMqttMessage(p)]_vars

\* ---------------------------------------------------------------------------
\* Telegram: the long-poll loop and its cursor
\* ---------------------------------------------------------------------------

\* The service takes in an update and numbers it; it is a text message of
\* an admitted sender, a text message of a blocked one, a message without
\* text or an update without a message
UpdateArrives(kind) ==
    /\ wire.made < MaxUpdates
    /\ wire' = [wire EXCEPT !.made = @ + 1,
                            !.held = Append(@, [id |-> wire.made + 1, kind |-> kind])]
    /\ UNCHANGED <<routerVars, linkVars, http, ws, tool>>

\* _get_updates: getUpdates with offset = self._offset when it is set; the
\* service forgets the updates below the offset and returns the others; a
\* failed call gives []
GetUpdates(ok) ==
    /\ wire.pc = "poll"
    /\ LET kept == SelectSeq(wire.held, LAMBDA u : u.id >= wire.offset)
       IN wire' = IF ok
                  THEN [wire EXCEPT !.held = kept, !.batch = kept,
                                    !.got = @ \cup {kept[i].id : i \in DOMAIN kept},
                                    !.pc = IF kept = <<>> THEN "poll" ELSE "update"]
                  ELSE wire
    /\ UNCHANGED <<routerVars, linkVars, http, ws, tool>>

NextUpdateLate(dispatch) ==
    /\ wire.pc = "update"
    /\ LET u == Head(wire.batch)
           left == dispatch = "raises" /\ u.kind = "text"
       IN wire' = [wire EXCEPT
                     !.offset = IF u.kind = "text" THEN u.id + 1 ELSE @,
                     !.batch = Tail(@),
                     !.handed = IF u.kind = "text" THEN Append(@, u.id) ELSE @,
                     !.pc = CASE left -> "left"
                              [] Tail(wire.batch) = <<>> -> "poll"
                              [] OTHER -> "update"]
    /\ UNCHANGED <<routerVars, linkVars, http, ws, tool>>

\* for update in updates: self._offset = update_id + 1 comes first; an update
\* without message, without text or from a blocked sender is passed over;
\* the others are handed to on_message (TelegramTransport: _handle_text),
\* which returns a reply, returns an error text or, in the channel, lets an
\* exception out that leaves the loop
NextUpdate(dispatch) ==
    /\ wire.pc = "update"
    /\ LET u == Head(wire.batch)
           left == dispatch = "raises" /\ u.kind = "text"
       IN wire' = [wire EXCEPT
                     !.offset = u.id + 1,
                     !.batch = Tail(@),
                     !.handed = IF u.kind = "text" THEN Append(@, u.id) ELSE @,
                     !.pc = CASE left -> "left"
                              [] Tail(wire.batch) = <<>> -> "poll"
                              [] OTHER -> "update"]
    /\ UNCHANGED <<routerVars, linkVars, http, ws, tool>>

SpecPoll ==
    Served("poll") /\
    [][\/ \E kind \in {"text", "blocked", "notext", "nomessage"} : UpdateArrives(kind)
       \/ \E ok \in BOOLEAN : GetUpdates(ok)
       \/ \E d \in {"returns", "fails", "raises"} : NextUpdate(d)]_vars

\* ---------------------------------------------------------------------------
\* WebSocket: _stream_agent on one connection
\* ---------------------------------------------------------------------------

\* the frames of an except clause of _stream_agent
ErrorThenDone == <<[type |-> "error", line |-> 0], [type |-> "done", line |-> 0]>>

StreamBeginSilent(spawn) ==
    /\ ws.pc = "idle" /\ ws.n < MaxStreams
    /\ ws' = IF spawn = "started"
             THEN [ws EXCEPT !.n = @ + 1, !.pc = "read", !.in = "try"]
             ELSE [ws EXCEPT !.n = @ + 1, !.pc = "say", !.in = "except",
                             !.say = <<[type |-> "error", line |-> 0]>>]
    /\ UNCHANGED <<routerVars, linkVars, wire, http, tool>>

\* handler: a frame with a non-empty text arrives (the loop is back at
\* async for) and _stream_agent is awaited; create_subprocess_exec starts the
\* agent, raises FileNotFoundError or raises another exception
StreamBegin(spawn) ==
    /\ ws.pc = "idle" /\ ws.n < MaxStreams
    /\ ws' = IF spawn = "started"
             THEN [ws EXCEPT !.n = @ + 1, !.pc = "read", !.in = "try"]
             ELSE [ws EXCEPT !.n = @ + 1, !.pc = "say", !.in = "except",
                             !.say = ErrorThenDone]
    /\ UNCHANGED <<routerVars, linkVars, wire, http, tool>>

\* line = await proc.stdout.readline() gives a line: an empty one is passed
\* over, one with text is sent as a "text" frame, and one longer than the
\* reader's limit makes readline raise, which the except clause answers
StreamLine(l) ==
    /\ ws.pc = "read" /\ Len(ws.lines) < MaxLines
    /\ LET i == Len(ws.lines) + 1
       IN ws' = [ws EXCEPT
                   !.lines = Append(@, [msg |-> ws.n, kind |-> l]),
                   !.pc = IF l = "empty" THEN "read" ELSE "say",
                   !.in = IF l = "overlong" THEN "except" ELSE @,
                   !.say = CASE l = "text" -> <<[type |-> "text", line |-> i]>>
                             [] l = "overlong" -> ErrorThenDone
                             [] OTHER -> <<>>]
    /\ UNCHANGED <<routerVars, linkVars, wire, http, tool>>

\* readline gives b"": proc.wait(), proc.stderr.read(), an "error" frame
\* when the agent failed with something on stderr, then the "done" frame
StreamEof(failed) ==
    /\ ws.pc = "read"
    /\ ws' = [ws EXCEPT !.pc = "say", !.in = "last",
                        !.say = IF failed THEN ErrorThenDone ELSE Tail(ErrorThenDone)]
    /\ UNCHANGED <<routerVars, linkVars, wire, http, tool>>

\* await ws.send(frame): the frame is sent, or the connection has gone and
\* send raises; raised inside the try block it is answered by the except
\* clause, raised inside an except clause it ends handler
WsSend(up) ==
    /\ ws.pc = "say" /\ (up => ws.open)
    /\ ws' = IF up
             THEN [ws EXCEPT !.frames = Append(@, [msg |-> ws.n, type |-> Head(ws.say).type,
                                                  line |-> Head(ws.say).line]),
                             !.say = Tail(@),
                             !.pc = CASE Tail(ws.say) # <<>> -> "say"
                                      [] ws.in = "try" -> "read"
                                      [] OTHER -> "idle"]
             ELSE IF ws.in = "except"
                  THEN [ws EXCEPT !.open = FALSE, !.pc = "ended", !.say = <<>>]
                  ELSE [ws EXCEPT !.open = FALSE, !.in = "except", !.say = ErrorThenDone]
    /\ UNCHANGED <<routerVars, linkVars, wire, http, tool>>

SpecStream ==
    Served("stream") /\
    [][\/ \E spawn \in {"started", "missing", "raises"} : StreamBegin(spawn)
       \/ \E l \in {"text", "empty", "overlong"} : StreamLine(l)
       \/ \E failed \in BOOLEAN : StreamEof(failed)
       \/ \E up \in BOOLEAN : WsSend(up)]_vars

\* ---------------------------------------------------------------------------
\* Plugins: discovery and the merge into the dispatch table
\* ---------------------------------------------------------------------------

DiscoverFileUnguarded ==
    /\ tool.pos < Len(tool.files) /\ ~tool.merged
    /\ LET i == tool.pos + 1
           f == tool.files[i]
           skipped == f.load # "module" \/ f.name \in DOMAIN tool.plugins
       IN tool' = [tool EXCEPT !.pos = i,
                               !.plugins = IF skipped THEN @
                                           ELSE [n \in DOMAIN @ \cup {f.name} |->
                                                   IF n = f.name THEN <<"plugin", i>> ELSE @[n]]]
    /\ UNCHANGED <<routerVars, linkVars, wire, http, ws>>

\* One turn of the loop of discover_plugins over the sorted file names: a
\* file that does not load, names a built-in tool or names a tool already in
\* plugins is skipped; otherwise plugins[tool_name] = plugin.handle
DiscoverFile ==
    /\ tool.pos < Len(tool.files) /\ ~tool.merged
    /\ LET i == tool.pos + 1
           f == tool.files[i]
           skipped == \/ f.load # "module"
                      \/ f.name \in BUILTIN_TOOLS
                      \/ f.name \in DOMAIN tool.plugins
       IN tool' = [tool EXCEPT !.pos = i,
                               !.plugins = IF skipped THEN @
                                           ELSE [n \in DOMAIN @ \cup {f.name} |->
                                                   IF n = f.name THEN <<"plugin", i>> ELSE @[n]]]
    /\ UNCHANGED <<routerVars, linkVars, wire, http, ws>>

\* main, --serve: plugins = discover_plugins(); if plugins:
\* TOOL_HANDLERS.update(plugins)
MergePlugins ==
    /\ tool.pos = Len(tool.files) /\ ~tool.merged
    /\ tool' = [tool EXCEPT !.merged = TRUE,
                            !.handlers = [n \in DOMAIN @ \cup DOMAIN tool.plugins |->
                                            IF n \in DOMAIN tool.plugins THEN tool.plugins[n]
                                            ELSE @[n]]]
    /\ UNCHANGED <<routerVars, linkVars, wire, http, ws>>

SpecPlugins == Served("plugins") /\ [][DiscoverFile \/ MergePlugins]_vars

NextGateways ==
    \/ \E c \in Gateways : Register(c)
    \/ StartAll
    \/ \E k \in DOMAIN calls : StartAllReturn(k)
    \/ StopAll
    \/ StopAllResume
    \/ \E t \in DOMAIN task : WebhookBegin(t)
    \/ WebhookServe
    \/ \E t \in DOMAIN task : WebSocketBegin(t)
    \/ \E t \in DOMAIN task : WebSocketBound(t)
    \/ \E t \in DOMAIN task : DiscordBegin(t)
    \/ \E t \in DOMAIN task : DiscordConnected(t)
    \/ \E t \in DOMAIN task : SlackBegin(t)
    \/ \E t \in DOMAIN task : SlackConnected(t)
    \/ \E t \in DOMAIN task : TaskCancelled(t)
    \/ \E s \in Senders : WebhookPost(s)
    \/ \E s \in Senders : WebSocketMessage(s)
    \/ \E e \in Events : \E a \in BOOLEAN : DiscordEvent(e, a)
    \/ \E e \in Events : \E a \in BOOLEAN : SlackEvent(e, a)
    \/ \E m \in DOMAIN msgs : HandlerReturns(m)
    \/ \E m \in DOMAIN msgs : HandlerRaises(m)
    \/ \E m \in DOMAIN msgs : SendReturns(m)
    \/ \E m \in DOMAIN msgs : SendRaises(m)
    \/ \E m \in DOMAIN msgs : WebhookReply(m)
    \/ \E m \in DOMAIN msgs : WebSocketStreamed(m)
    \/ \E m \in DOMAIN msgs : DiscordOwnSend(m)
    \/ \E m \in DOMAIN msgs : SlackOwnSend(m)

Spec == Init /\ [][Next]_vars

SpecLife == InitLife /\ [][Next]_vars

SpecGateways == InitGateways /\ [][NextGateways]_vars

----------------------------------------------------------------------------
(* Properties *)

RouterSends(m) ==
    Cardinality({i \in DOMAIN sent : sent[i].msg = m /\ sent[i].by = "router"})

Started == {"handler", "send", "done", "cancelled"}

LiveTasks(c) ==
    Cardinality({t \in DOMAIN task : task[t].chan = c /\ task[t].pc \notin Finished})

\* C1: _dispatch invokes Channel.send exactly once for a message of a
\* registered channel once its handler has returned or raised, never before and
\* never twice; when the handler raised, the text handed to send carries the
\* error marker, otherwise it is the handler's result.  (Only the sends made
\* by _dispatch are counted, not a channel's own.)
C1_SendOncePerDispatch ==
    \A m \in DOMAIN msgs :
        /\ RouterSends(m) <= 1
        /\ msgs[m].pc \in {"send", "done"} => RouterSends(m) = 1
        /\ msgs[m].pc \in {"queued", "dropped", "handler"} => RouterSends(m) = 0
        /\ \A i \in DOMAIN sent :
              sent[i].msg = m /\ sent[i].by = "router" =>
                 /\ msgs[m].hres \in {"ok", "exc"}
                 /\ msgs[m].hres = "exc" => sent[i].text.kind = "error"
                 /\ msgs[m].hres = "ok" => sent[i].text = Reply(m)

C1_Witness ==
    \E m, n \in DOMAIN msgs :
        /\ msgs[m].chan = "telegram" /\ msgs[m].hres = "exc" /\ msgs[m].pc = "done"
        /\ msgs[n].chan = "mqtt" /\ msgs[n].hres = "ok" /\ msgs[n].pc = "done"
        /\ RouterSends(m) = 1 /\ RouterSends(n) = 1

\* C2: every reply the router sends goes through the channel registered under
\* the message's msg.channel, to the message's channel_id, with the response
\* computed for that very message, whatever the interleaving of dispatches.
C2_ReplyRouting ==
    \A i \in DOMAIN sent :
        sent[i].by = "router" =>
            LET m == sent[i].msg
            IN /\ sent[i].chan = msgs[m].chan
               /\ sent[i].chan \in channels
               /\ sent[i].to = msgs[m].chat
               /\ sent[i].text = msgs[m].resp
               /\ sent[i].text.of = m

\* two dispatches of different channels and conversations overlapped: the
\* message that arrived later was answered first
C2_Witness ==
    \E i, j \in DOMAIN sent :
        /\ i < j /\ sent[i].by = "router" /\ sent[j].by = "router"
        /\ sent[i].msg > sent[j].msg
        /\ sent[i].chan # sent[j].chan
        /\ sent[i].to # sent[j].to

C3_AfterSendFailure ==
    \A m \in DOMAIN msgs :
        msgs[m].sres = "exc" =>
            /\ msgs[m].pc = "done"
            /\ RouterSends(m) = 1
            /\ msgs[m].resp \in {Reply(m), ErrorReply(m)}
            /\ msgs[m].owner # 0 => task[msgs[m].owner].pc # "failed"

C3_FailureStep ==
    \A m \in DOMAIN msgs :
        msgs[m].sres # "exc" /\ msgs'[m].sres = "exc" =>
            \A n \in DOMAIN msgs :
                n # m /\ msgs[n].pc \in {"handler", "send"} => msgs'[n] = msgs[n]

\* C3: a send that raises is not retried, _dispatch returns the response
\* without raising (the Telegram loop goes on), and the step in which the send
\* fails leaves every other dispatch in flight as it was.
C3_SendFailureContained == []C3_AfterSendFailure /\ [][C3_FailureStep]_vars

\* a send failed, and a dispatch that was sent later completed normally
C3_Witness ==
    \E i, j \in DOMAIN sent :
        /\ i < j /\ sent[i].msg # sent[j].msg
        /\ msgs[sent[i].msg].sres = "exc" /\ msgs[sent[i].msg].pc = "done"
        /\ msgs[sent[j].msg].sres = "ok" /\ msgs[sent[j].msg].pc = "done"
        /\ sent[i].chan = "telegram"

C4_NeverRaises ==
    \A k \in DOMAIN calls : calls[k].pc \in {"gather", "returned"}

C4_Step ==
    /\ Len(calls') > Len(calls) =>
          \A c \in channels :
              \E t \in DOMAIN task' :
                  /\ t \notin DOMAIN task /\ task'[t].chan = c /\ task'[t].pc = "new"
                  /\ t \in Range(tasks') /\ t \in calls'[Len(calls')].aw
    /\ \A t \in DOMAIN task :
          task[t].pc \notin Finished /\ task'[t].pc \in {"early", "failed"} =>
              /\ \A u \in DOMAIN task : u # t => task'[u] = task[u]
              /\ \A c \in Names : c # task[t].chan => chan'[c] = chan[c]
              /\ msgs' = msgs /\ calls' = calls /\ tasks' = tasks

\* C4: start_all creates a start task for every registered channel; a start()
\* that raises or returns early changes no other task or channel; and no
\* start_all call ever ends by raising a channel's exception.
C4_StartIsolation == []C4_NeverRaises /\ [][C4_Step]_vars

\* one channel's start failed or returned early while start_all is still
\* waiting, and another channel of the same call runs and completed a dispatch
C4_Witness ==
    \E k \in DOMAIN calls : \E t, u \in calls[k].aw :
        /\ calls[k].pc = "gather"
        /\ task[t].pc \in {"early", "failed"}
        /\ task[u].pc \in {"poll", "idle", "serve"}
        /\ \E m \in DOMAIN msgs : msgs[m].chan = task[u].chan /\ msgs[m].pc = "done"

C5_Step ==
    Len(stops') > Len(stops) =>
        /\ \A t \in Range(tasks) : task'[t].cancel \/ task[t].pc \in Finished
        /\ \A c \in channels :
              /\ ~chan'[c].running
              /\ chan'[c].handle \in {"none", "shut"}
        /\ tasks' = <<>>
        /\ stops'[Len(stops')] = "returned"

C6_Step ==
    stopRun >= 1 /\ Len(stops') > Len(stops) =>
        /\ stops'[Len(stops')] = "returned"
        /\ UNCHANGED <<channels, tasks, task, calls, chan, msgs, sent, life>>

\* C6: a stop_all called right after a completed stop_all returns normally,
\* cancels nothing and changes neither the router's nor any channel's state.
C6_SecondStopNoop == [][C6_Step]_vars

\* two stop_all calls in a row on a router whose channels had been running
C6_Witness ==
    /\ stopRun = 2
    /\ \E c \in channels : life[c].st = "Stopped"
    /\ chan["mqtt"].handle = "none" /\ life["mqtt"].st = "Stopped"

\* C7: every channel's lifecycle follows Registered, Starting, Running,
\* Stopping, Stopped without skipping or revisiting a state, and a channel
\* never has more than one unfinished start task.
C7_Lifecycle ==
    \A c \in Names : life[c].ok /\ LiveTasks(c) <= 1

\* C8: on a channel constructed with a non-empty allowlist, a message whose
\* sender is not listed is never dispatched nor answered, and a message whose
\* sender is listed is not dropped.
C8_AllowlistEnforced ==
    \A m \in DOMAIN msgs :
        LET a == cfg[msgs[m].chan]
        IN (a.given /\ a.ids # {}) =>
              /\ msgs[m].sender \notin a.ids =>
                    /\ msgs[m].pc \notin Started
                    /\ \A i \in DOMAIN sent : sent[i].msg # m
              /\ msgs[m].sender \in a.ids => msgs[m].pc # "dropped"

\* C9: the Telegram channel constructed with a present but empty allowlist
\* admits no sender: none of its messages is ever dispatched.
C9_EmptyAllowlistAdmitsNone ==
    \A m \in DOMAIN msgs :
        (msgs[m].chan = "telegram" /\ cfg["telegram"].given /\ cfg["telegram"].ids = {})
            => msgs[m].pc \notin Started

\* C10: within one channel the handler of a later message is started only
\* after the earlier message's reply was handed to send (or the message was
\* dropped), and the channel's replies are sent in arrival order.
C10_ArrivalOrder ==
    /\ \A m, n \in DOMAIN msgs :
          (m < n /\ msgs[m].chan = msgs[n].chan /\ msgs[n].pc \in Started)
              => msgs[m].pc \in {"send", "done", "dropped"}
    /\ \A i, j \in DOMAIN sent :
          (i < j /\ sent[i].chan = sent[j].chan /\ sent[i].by = "router"
                 /\ sent[j].by = "router")
              => sent[i].msg < sent[j].msg

\* C11: a dispatch whose handler invocation had started when stop_all was
\* called is not killed: whenever a dispatch ends by cancellation, its handler
\* had already completed and its reply had been handed to send.
C11_InFlightCompletes ==
    \A m \in DOMAIN msgs :
        msgs[m].pc = "cancelled" => msgs[m].hres # "none" /\ RouterSends(m) = 1

\* positions at which a task is inside a blocking call of its transport
InBlockingCall == {"getMe", "poll", "connect", "serve"}

\* C12: while a channel is inside a blocking call of its transport (getMe,
\* getUpdates, connect, serve_forever) and another channel is running, the
\* loop's thread is free to run the other channel's steps.
C12_BlockingOffLoop ==
    \A t \in DOMAIN task :
        task[t].pc \in InBlockingCall =>
            \A c \in Names \ {task[t].chan} :
                (chan[c].running \/ chan[c].handle \in {"looping", "serving"}) => LoopFree

\* C13: every inbound message that its channel admits is passed to on_message,
\* and every reply a channel delivers is the outcome of the router's handler
\* for that message.
C13_SingleChokepoint ==
    /\ \A m \in DOMAIN msgs : msgs[m].pc # "dropped" => msgs[m].pc \in Started \cup {"queued"}
    /\ \A i \in DOMAIN sent : msgs[sent[i].msg].hres # "none"

\* a start() that is still before or inside its initialisation: not begun,
\* suspended in the call that sets the transport up, or with its server
\* thread not yet in its serving loop
Initialising(t) ==
    \/ task[t].pc \in {"new", "bind", "login", "handshake"}
    \/ task[t].pc = "serve" /\ chan[task[t].chan].handle = "bound"

\* start() of channel c was never called, returned early, or is initialising
NotStarted(c) ==
    \A t \in DOMAIN task : task[t].chan = c => task[t].pc = "early" \/ Initialising(t)

\* a server thread, a network thread or a connection of the channel is there
Live == {"bound", "serving", "looping", "connected", "closing", "hung"}

\* this step is a call of stop_all
StopAllCalled ==
    /\ halt = NoHalt /\ loop = 0
    /\ Len(stops') > Len(stops) \/ halt' # NoHalt \/ loop' = -1

C14_Step ==
    StopAllCalled =>
        LET r == StopChannels(Values, chan)
        IN \A c \in channels :
              (NotStarted(c) /\ (c \in r.stopped \/ c = r.at)) =>
                  /\ c \in r.stopped
                  /\ ~chan'[c].running
                  /\ chan'[c].handle \notin Live

\* C14: a stop() that stop_all calls on a channel whose start() was never
\* called, returned early or is still initialising returns without raising
\* and leaves the channel not running, with no thread or connection of its own.
C14_StopBeforeStarted == [][C14_Step]_vars


----------------------------------------------------------------------------
(* The device link: framing and failure handling *)

\* payload lengths at the edges of the two header bytes
FrameLens == {0, 1, 255, 256, 300, 65535}

\* C15: a payload written as a frame (two bytes of big-endian length, then
\* the payload) is read back as exactly that payload, and a header decodes to
\* the length it was packed from on the read side and on the write side
C15_FrameRoundTrip ==
    /\ \A n \in FrameLens : Unpack(Pack(n)) = n
    /\ \A s \in DOMAIN dev :
         /\ \A i \in DOMAIN dev[s].handed :
              i <= Len(dev[s].framed) => dev[s].handed[i].payload = dev[s].framed[i]
         /\ dev[s].pc = "payload" => dev[s].need = dev[s].declared[dev[s].heads]
         /\ \A i \in DOMAIN dev[s].out : Unpack(dev[s].out[i].hdr) = dev[s].out[i].len

C15_Witness ==
    \E s \in DOMAIN dev :
        /\ Len(dev[s].handed) >= 1 /\ Len(dev[s].out) >= 1
        /\ dev[s].handed[1].payload = dev[s].framed[1]
        /\ Len(dev[s].handed[1].payload) = 2
        /\ dev[s].out[1].len = 300

\* C16: when a stream ends inside a header or inside a payload, no payload
\* shorter than its header announced is handed to handle_message and no byte
\* of the stream is silently dropped
C16_NoPartialFrame ==
    \A s \in DOMAIN dev :
        /\ \A i \in DOMAIN dev[s].handed :
              Len(dev[s].handed[i].payload) = dev[s].handed[i].need
        /\ dev[s].lost = 0

C17_Step ==
    \A s \in DOMAIN dev :
        (srv.kind = "socket" /\ dev[s].pc = "closed") =>
            /\ ~dev[s].open /\ ~dev'[s].open
            /\ dev'[s].pc = "closed"
            /\ dev'[s].handed = dev[s].handed
            /\ dev'[s].out = dev[s].out
            /\ srv.up /\ srv'.up

\* C17: once a socket session's stream has closed or been reset, its loop has
\* ended and its writer is closed: nothing more is handed to handle_message
\* for it, nothing more is written to it, it does not start again, and the
\* server stays up
C17_SessionTeardown == [][C17_Step]_vars

C17_Witness ==
    /\ srv.kind = "socket" /\ Len(dev) = 2
    /\ dev[1].pc = "closed" /\ dev[1].inbox # <<>>
    /\ Len(dev[2].out) >= 1

\* C18: a payload that is not valid JSON is answered with an error reply and
\* the session's loop goes on
C18_BadJsonAnswered ==
    \A s \in DOMAIN dev : \A i \in DOMAIN dev[s].handed :
        ~JsonLoads(dev[s].handed[i].payload).ok =>
            /\ ~dev[s].handed[i].res.raised /\ dev[s].handed[i].res.error
            /\ dev[s].pc # "crashed"

\* the requests that are recoverable below the outer level
Recoverable(d) == d.arg = "malformed" \/ (d.type = "tool" /\ d.name \notin Tools)

\* C19: malformed JSON in an api request's body or in a tool request's input
\* string, or an unknown tool name, is answered with a structured error reply
\* and the session's loop goes on
C19_RecoverableAnswered ==
    \A s \in DOMAIN dev : \A i \in DOMAIN dev[s].handed :
        Recoverable(dev[s].handed[i].res.doc) =>
            /\ ~dev[s].handed[i].res.raised /\ dev[s].handed[i].res.error
            /\ dev[s].pc # "crashed"

\* C20: an exception raised while a tool executes does not leave
\* handle_message: the reply is a tool_result with is_error true and the
\* exception's message as output
C20_ToolExceptionCaught ==
    \A s \in DOMAIN dev : \A i \in DOMAIN dev[s].handed :
        dev[s].handed[i].res.exec = "raises" =>
            /\ ~dev[s].handed[i].res.raised
            /\ dev[s].handed[i].res.kind = "tool_result"
            /\ dev[s].handed[i].res.error
            /\ dev[s].handed[i].res.text = "exception"

C20_Witness ==
    \E s \in DOMAIN dev :
        /\ Len(dev[s].handed) = 2 /\ Len(dev[s].out) = 2
        /\ dev[s].handed[1].res.exec = "raises"
        /\ dev[s].handed[1].res.doc.name = "bash"
        /\ dev[s].handed[2].res.exec = "raises"
        /\ dev[s].handed[2].res.doc.name = "read_file"


----------------------------------------------------------------------------
(* The device link: the dispatcher's replies *)

\* C21: a request whose type is neither "api" nor "tool", a missing type
\* included, is answered with the error "Unknown type: <type>" naming that
\* type, without a call upstream and without running a tool
C21_UnknownType ==
    \A s \in DOMAIN dev : \A i \in DOMAIN dev[s].handed :
        LET r == dev[s].handed[i].res
            j == JsonLoads(dev[s].handed[i].payload)
        IN (j.ok /\ j.doc.type \notin {"api", "tool"}) =>
              /\ ~r.raised
              /\ r.kind = "error" /\ r.text = "Unknown type" /\ r.about = j.doc.type
              /\ r.upstream = 0 /\ r.exec = "none"

C21_Witness ==
    \E s \in DOMAIN dev :
        /\ Len(dev[s].handed) = 2 /\ Len(dev[s].out) = 2
        /\ dev[s].handed[1].res.about = "ping"
        /\ dev[s].handed[2].res.doc.type = ""
        /\ dev[s].handed[2].res.kind = "error"

----------------------------------------------------------------------------
(* Length ceilings *)

\* what the claims say is transmitted for a text t
Capped(t) ==
    IF TextLen(t) > Ceiling THEN [of |-> t.of, keep |-> Kept, marked |-> TRUE] ELSE t

\* C23: MqttChannel.send publishes a text longer than 4096 characters as its
\* first 4093 characters followed by the marker, and a shorter text unchanged
C23_MqttTruncates ==
    \A i \in DOMAIN wire.log :
        wire.log[i].by = "mqtt" =>
            /\ wire.log[i].put = Capped(wire.log[i].given)
            /\ TextLen(wire.log[i].put) <= Ceiling

\* C24: the Telegram send delivers a text longer than 4096 characters as its
\* first 4093 characters plus "...", a shorter one unchanged; no delivered
\* message exceeds 4096 characters and none is refused for its length
C24_TelegramTruncates ==
    \A i \in DOMAIN wire.log :
        wire.log[i].by \in {"telegram", "transport"} =>
            /\ wire.log[i].put = Capped(wire.log[i].given)
            /\ TextLen(wire.log[i].put) <= Ceiling
            /\ wire.log[i].taken

C24_Witness ==
    /\ Len(wire.log) = 2
    /\ wire.log[1].by = "telegram" /\ TextLen(wire.log[1].given) = 5000
    /\ TextLen(wire.log[1].put) = Ceiling /\ wire.log[1].put.marked
    /\ wire.log[2].by = "transport" /\ wire.log[2].given.keep = Ceiling
    /\ wire.log[2].put = wire.log[2].given


----------------------------------------------------------------------------
(* The webhook's answers *)

\* C25: with auth_token configured, a POST whose Authorization header is not
\* "Bearer <auth_token>" is answered 401 and becomes no IncomingMessage
C25_Unauthorized ==
    \A i \in DOMAIN http.log :
        (http.token /\ http.log[i].req.auth # "bearer") =>
            /\ http.log[i].resp = <<[status |-> 401, body |-> "unauthorized"]>>
            /\ ~http.log[i].msg
            /\ http.log[i].pc = "done"

C25_Witness ==
    /\ http.token /\ Len(http.log) = 2
    /\ http.log[1].req = [auth |-> "other", clen |-> "number", body |-> "text"]
    /\ http.log[1].resp[1].status = 401
    /\ http.log[2].req.auth = "bearer" /\ http.log[2].resp # <<>>
    /\ http.log[2].resp[1].status = 200

\* C26: every POST that is over got exactly one response, a JSON document:
\* {"text": reply} with status 200 when it reached the handler, an error
\* object otherwise
C26_OneJsonResponse ==
    \A i \in DOMAIN http.log :
        http.log[i].pc # "waiting" =>
            /\ Len(http.log[i].resp) = 1
            /\ http.log[i].msg <=> http.log[i].resp[1].status = 200


----------------------------------------------------------------------------
(* The websocket's authentication *)

\* C27: with auth_token configured, a connection is served (a frame of it is
\* answered, the agent run, a text or done frame sent) only after it presented
\* exactly the configured token, in its query string or in its auth message;
\* any other connection is closed unserved
C27_AuthBeforeService ==
    \A c \in DOMAIN ws.conns :
        (ws.token /\ ws.conns[c].query # Secret /\ ws.conns[c].first # Secret) =>
            /\ ws.conns[c].pc \in {"auth", "closed"}
            /\ ws.conns[c].got = 0 /\ ws.conns[c].runs = 0
            /\ \A i \in DOMAIN ws.conns[c].frames : ws.conns[c].frames[i] = "unauthorized"


----------------------------------------------------------------------------
(* Chunked writes on the BLE link *)

\* C28: a reply is written as consecutive chunks of at most 244 bytes, in
\* order, which together are the reply; between two chunks of one reply no
\* chunk of another reply is written, also when a notification arrives while
\* the reply is being written
C28_ChunksInOrder ==
    LET out == dev[1].out
        Whole(c) == c.from + c.len = dev[1].lens[c.of]
    IN /\ \A i \in DOMAIN out : out[i].len \in 1..Mtu
       /\ out # <<>> => out[1].from = 0
       /\ \A i \in 1..(Len(out) - 1) :
            IF out[i + 1].of = out[i].of
            THEN out[i + 1].from = out[i].from + out[i].len
            ELSE Whole(out[i]) /\ out[i + 1].from = 0
       /\ (out # <<>> /\ dev[1].pc = "idle") => Whole(out[Len(out)])

C28_Witness ==
    /\ Len(dev[1].out) = 4
    /\ dev[1].out[1].of = 1 /\ dev[1].out[3] = [of |-> 1, from |-> 2 * Mtu, len |-> 12]
    /\ dev[1].out[4].of = 3
    /\ dev[1].pc = "idle"


----------------------------------------------------------------------------
(* Tool handlers *)

\* C29: every run of exec_tool_mode prints exactly one line of JSON; it exits
\* with status 1 when the JSON is invalid, the action unknown or the handler
\* raises, and returns otherwise
C29_OneJsonLine ==
    \A i \in DOMAIN tool.runs :
        LET a == tool.runs[i].arg
            r == tool.runs[i].res
            fails == a.json = "invalid" \/ a.action = "unknown" \/ a.handler = "raises"
        IN /\ Len(r.stdout) = 1
           /\ r.status = IF fails THEN "exit 1" ELSE "returns"

\* writes to pin p that reached the hardware within the window starting at t0
InWindow(p, t0) ==
    Cardinality({i \in DOMAIN tool.hw[p] : t0 <= tool.hw[p][i] /\ tool.hw[p][i] < t0 + Window})

C30_Step ==
    tool'.calls = tool.calls + 1 =>
        LET p == tool'.last.pin
            recent == Cardinality({i \in DOMAIN tool.hw[p] : tool.now - tool.hw[p][i] < Window})
        IN /\ tool'.last.ok <=> recent < MAX_WRITES_PER_SEC
           /\ tool'.hw[p] = IF tool'.last.ok THEN Append(tool.hw[p], tool.now) ELSE tool.hw[p]
           /\ \A q \in DOMAIN tool.hw \ {p} : tool'.hw[q] = tool.hw[q] /\ tool'.stamps[q] = tool.stamps[q]

\* C30: within any one-second window at most 10 writes to a pin reach the
\* hardware; a write is rejected exactly when 10 writes to its pin were
\* accepted within the last second, whatever was rejected and whatever was
\* written to other pins, and a rejected write does not reach the hardware
C30_RateLimit ==
    /\ [](\A p \in DOMAIN tool.hw : \A t0 \in 0..MaxClock : InWindow(p, t0) <= MAX_WRITES_PER_SEC)
    /\ [][C30_Step]_vars

C30_Witness ==
    /\ ~tool.last.ok /\ tool.last.pin = 17
    /\ Len(tool.hw[17]) = MAX_WRITES_PER_SEC
    /\ Len(tool.hw[27]) = 1
    /\ tool.calls = MaxWrites

\* the first file, in sorted order, that loads and declares tool name n
FirstDeclaring(n) ==
    LET is == {i \in 1..tool.pos : tool.files[i].name = n /\ tool.files[i].load = "module"}
    IN IF is = {} THEN 0 ELSE CHOOSE i \in is : \A j \in is : i <= j

\* C31: discover_plugins holds no built-in tool name and, for a name declared
\* by several files, the handler of the first in sorted order; after the merge
\* every built-in action maps to its original handler
C31_BuiltinsKept ==
    /\ DOMAIN tool.plugins \cap BUILTIN_TOOLS = {}
    /\ \A n \in DOMAIN tool.plugins : tool.plugins[n] = <<"plugin", FirstDeclaring(n)>>
    /\ \A n \in {"mine", "other"} : FirstDeclaring(n) # 0 => n \in DOMAIN tool.plugins
    /\ \A n \in BUILTIN_TOOLS :
          n \in DOMAIN tool.handlers /\ tool.handlers[n] = TOOL_HANDLERS[n]

C31_Witness ==
    /\ tool.merged
    /\ Len(tool.files) = 3
    /\ tool.files[1].name = "estop" /\ tool.files[1].load = "module"
    /\ tool.files[2].name = "mine" /\ tool.files[2].load = "module"
    /\ tool.files[3].name = "mine" /\ tool.files[3].load = "module"
    /\ tool.handlers["mine"] = <<"plugin", 2>>

\* replies to message m that reached its recipient: the router's send when
\* it returned, and what the channel's own inbound handler delivered
Deliveries(m) ==
    Cardinality({i \in DOMAIN sent :
                    /\ sent[i].msg = m
                    /\ sent[i].by = "router" => msgs[m].sres = "ok"})

\* C32: the reply to an inbound message is delivered to the recipient at most
\* once, not by the router's Channel.send and again by the channel's handler
C32_DeliveredOnce ==
    \A m \in DOMAIN msgs : Deliveries(m) <= 1

\* C33: no stop() keeps the scheduler for ever: the event loop's thread is
\* never inside a stop() that does not return, so that a stop_all that was
\* called can go on to the next channel and return
C33_StopAllReturns ==
    loop # -1

\* C34: the reply to every notification received is waiting in
\* response_data, is being written or has been written: none is replaced by
\* the reply to a later notification before the write loop has taken it
C34_EveryReplyWritten ==
    \A k \in DOMAIN dev[1].lens :
        \/ dev[1].pending.id = k
        \/ dev[1].data.id = k
        \/ \E i \in DOMAIN dev[1].out : dev[1].out[i].of = k

\* C35: on a socket session every request for which handle_message returned
\* a reply has one reply frame written, whose header decodes to the reply's
\* length, whatever that length is
C35_OneReplyFrame ==
    srv.kind = "socket" =>
        \A s \in DOMAIN dev : \A i \in DOMAIN dev[s].handed :
            ~dev[s].handed[i].res.raised =>
                /\ Cardinality({j \in DOMAIN dev[s].out : dev[s].out[j].call = i}) = 1
                /\ \A j \in DOMAIN dev[s].out :
                      dev[s].out[j].call = i =>
                          Unpack(dev[s].out[j].hdr) = dev[s].handed[i].res.len

\* the frames sent for message k, and the lines of the agent run for it
\* that carry text
FramesOf(k) == SelectSeq(ws.frames, LAMBDA f : f.msg = k)

TextLinesOf(k) ==
    {i \in DOMAIN ws.lines : ws.lines[i].msg = k /\ ws.lines[i].kind = "text"}

\* C36: the "text" frames of a message are the agent's non-empty output
\* lines in output order; at most one "done" frame is sent for the message
\* and nothing after it; and once _stream_agent has returned on a connection
\* that is up, every such line has its frame and the "done" frame is sent
C36_DoneLast ==
    \A k \in 1..ws.n :
        LET fs == FramesOf(k)
            texts == SelectSeq(fs, LAMBDA f : f.type = "text")
            over == k < ws.n \/ ws.pc = "idle"
        IN /\ \A i \in DOMAIN fs : fs[i].type = "done" => i = Len(fs)
           /\ \A i \in DOMAIN texts :
                 /\ texts[i].line \in TextLinesOf(k)
                 /\ Cardinality({j \in TextLinesOf(k) : j < texts[i].line}) = i - 1
           /\ over => /\ fs # <<>> /\ fs[Len(fs)].type = "done"
                       /\ Len(texts) = Cardinality(TextLinesOf(k))

C36_Witness ==
    /\ ws.n = 2 /\ ws.pc = "idle" /\ Len(ws.lines) = 3
    /\ ws.lines[2].kind = "empty"
    /\ Len(FramesOf(1)) = 3 /\ FramesOf(1)[2].line = 3
    /\ Len(FramesOf(2)) = 2 /\ FramesOf(2)[1].type = "error"

\* C37: when the loop polls, the cursor is past every update received so
\* far, whether it was handled, passed over or failed; no update is handed to
\* the handler twice; and the cursor never moves backwards
C37_CursorAdvances ==
    /\ [](/\ wire.pc = "poll" => \A id \in wire.got : id < wire.offset
          /\ \A i, j \in DOMAIN wire.handed : wire.handed[i] = wire.handed[j] => i = j
          /\ \A i \in DOMAIN wire.batch : wire.batch[i].id >= wire.offset)
    /\ [][wire'.offset >= wire.offset]_vars

C37_Witness ==
    /\ wire.pc = "poll" /\ wire.offset = 4
    /\ wire.handed = <<1, 3>>
    /\ wire.got = {1, 2, 3}
    /\ wire.held # <<>> /\ wire.held[1].id = 3

\* C38: every message received on the subscribed topic gives one
\* IncomingMessage with the topic as channel_id; text and sender_id are the
\* fields of a JSON body, with the payload and "mqtt" as defaults, and for
\* every other payload the payload and "mqtt"
C38_EveryPayloadAccepted ==
    \A i \in DOMAIN wire.log :
        LET p == wire.log[i].payload
            body == p.json = "object"
        IN wire.log[i].incoming =
               <<[channel_id |-> wire.topic,
                  text |-> IF body /\ p.text THEN "field" ELSE "payload",
                  sender_id |-> IF body /\ p.sender THEN "field" ELSE "mqtt"]>>

\* a step of register: one name more in the registry, nothing else of the
\* router touched
C39_RegisterStep ==
    /\ \E c \in Kinds \ channels : channels' = channels \cup {c}
    /\ UNCHANGED <<tasks, task, calls, stops, chan, msgs, sent, halt, loop>>

C40_SearchCapped ==
    \A i \in DOMAIN tool.runs :
        LET n == tool.runs[i].arg
            r == tool.runs[i].res
        IN /\ r.results <= SearchCap
           /\ n > SearchCap => r.results = SearchCap /\ r.marker
           /\ n <= SearchCap => r.results = n /\ ~r.marker

====
